---- MODULE Spec2Model ----
(***************************************************************************)
(* Model of the HFT tick-to-trade subsystem of the repository              *)
(* (src/backend/hft): the bounded event queue, the pre-trade risk gate,    *)
(* the order management system, the execution path that drives them, the   *)
(* position tracker, the order books, the latency-arbitrage detector, the  *)
(* smart order router, the market-making engine and the orchestrator's     *)
(* start() / stop().                                                       *)
(*                                                                         *)
(* Each component has its own specification over the shared variables:     *)
(*   SpecQueue  LockFreeEventQueue driven by publish / consume_batch       *)
(*   SpecQueueNoReset the same without reset_stats                         *)
(*   SpecExecFair the execution path under fair scheduling                 *)
(*   SpecRisk   HFTRiskEngine under orders and the passing of time         *)
(*   SpecBreaker HFTRiskEngine under P&L updates, orders and daily resets   *)
(*   SpecExec   HFTOrchestrator._execute_signal run by the two loops       *)
(*   SpecOMS    OrderManagementSystem driven by its public operations      *)
(*   SpecTracker PositionTracker under a sequence of fills                  *)
(*   SpecMarket OrderBookManager and LatencyArbitrageEngine under events   *)
(*   SpecRouter SmartOrderRouter.route_signal under any venue list         *)
(*   SpecLife   HFTOrchestrator.start / stop with the execution path       *)
(*   SpecQuotes MarketMakingEngine.generate_quotes under books and fills   *)
(*   SpecBook   OrderBookManager under any event and failover              *)
(*   SpecClock  NanosecondClock under now() calls                          *)
(***************************************************************************)
EXTENDS Integers, Sequences, FiniteSets, TLC

(***************************************************************************)
(* Bounds of the model.                                                    *)
(***************************************************************************)
\* capacity of the queue under test (constructor argument)
Capacity == 3
\* number of events the producer publishes in one behaviour
MaxEvents == 6
\* largest max_items passed to consume_batch
MaxBatch == 4
\* number of check_order calls in one behaviour of the risk gate
MaxChecks == 3
\* clock ticks in 1.0 s of time.monotonic(), and the last tick modelled
Second == 2
MaxTime == 3
\* RiskConfig of the engine under test, scaled to the prices below
PositionLimitPerSymbol == 2
MaxOrdersPerSecond == 1
MaxOrderValue == 205
MaxNotionalPerSecond == 210
MaxDailyLoss == 300
\* ExecutionConfig.max_slice_size of the router under test
MaxSliceSize == 2
\* number of signals the two loops execute in one behaviour
MaxSignals == 2
\* orders created and fills applied in one behaviour of the OMS alone
MaxOmsOrders == 1
MaxOmsFills == 3
\* fills applied in one behaviour of the position tracker alone
MaxTrackerFills == 3
\* market-data events applied in one behaviour of the book and the detector
MaxMarketEvents == 3
\* route_signal calls in one behaviour of the router
MaxRoutes == 2
\* start() and stop() calls in one behaviour of the orchestrator lifecycle
MaxLifeCalls == 4
\* StrategyConfig of the market maker under test: max_position_shares and
\* quote_size_shares
MaxPositionShares == 10
QuoteSizeShares == 4
\* book events and fills in one behaviour of the market maker
MaxMmEvents == 2
MaxMmFills == 3
\* number of apply_event calls on the order-book manager under test
MaxBookEvents == 3
\* number of now() calls on the clock, and the span of the counter readings
MaxClockCalls == 3
MaxPerfAdvance == 4
\* StrategyConfig.arb_min_profit_bps of the detector under test, in tenths
\* of a basis point
ArbMinProfitTenthBps == 20

(***************************************************************************)
(* Program constants.                                                      *)
(***************************************************************************)
\* RiskConfig.fat_finger_threshold_pct
FatFingerPct == 5
\* StrategyConfig.arb_staleness_threshold_us
ArbStalenessThresholdUs == 500
\* StrategyConfig.default_spread_bps, and inventory_skew_factor in tenths
DefaultSpreadBps == 2
InventorySkewTenths == 3
\* OrderBookManager.replica_count
ReplicaCount == 2
\* the cap on the quantity of an arbitrage signal
ArbMaxQty == 1000
\* maxlen of HFTRiskEngine._notional_window
NotionalWindowMaxLen == 10000

Symbols == {"X"}
Sides == {"BUY", "SELL"}
Prices == {100, 103, 106}
Qtys == {1, 2}
OrderIds == {1, 2}
\* daily P&L is counted in thousandths of the price unit; the levels the
\* callers' updates take it to: past the loss limit, on it, flat, past the
\* limit on the profit side
PnlLevels == {-(MaxDailyLoss + 1), -MaxDailyLoss, 0, MaxDailyLoss + 1}

VARIABLES
    \* ---- LockFreeEventQueue (pipeline/event_queue.py) ----
    buffer,          \* _buffer: the queued events, oldest first
    enqueue_count,   \* _enqueue_count
    dequeue_count,   \* _dequeue_count
    overflow_count,  \* _overflow_count
    next_event,      \* sequence number the producer gives its next event
    delivered,       \* history: every event returned to the consumer, in order
    q_call,          \* the last queue operation invoked, with its argument
    q_ret            \* what that operation returned (a batch for consume_batch)

queue_vars == <<buffer, enqueue_count, dequeue_count, overflow_count,
                next_event, delivered, q_call, q_ret>>

VARIABLES
    \* ---- HFTRiskEngine (risk/risk_engine.py) ----
    risk,            \* the engine's fields, a record named as in __init__
    positions,       \* PositionTracker._positions: symbol -> position
    tracker_fills,   \* history: every fill the position tracker applied
    now,             \* time.monotonic(), in ticks
    approved_log,    \* history: (time, order_id, notional) of every approval
    r_call,          \* the last risk-gate operation invoked, with its argument
    r_ret            \* the RiskDecision the last check_order returned

risk_vars == <<risk, positions, tracker_fills, now, approved_log, r_call, r_ret>>

VARIABLES
    \* ---- OrderManagementSystem (execution/oms.py) ----
    oms,             \* the OMS fields: _orders, _total_orders, _total_fills,
                     \* _orders_by_status
    o_call,          \* the last OMS operation invoked, with its arguments
    \* ---- HFTOrchestrator._execute_signal (orchestrator.py) ----
    tasks,           \* per loop: where its _execute_signal call stands
    running,         \* the loop the event loop is running, "none" between
    signals_done,    \* _total_signals_processed
    order_log        \* history: per order, the risk gate's verdict and
                     \* what became of it at the gateway

exec_vars == <<oms, o_call, tasks, running, signals_done, order_log>>

VARIABLES
    \* ---- OrderBookManager (orderbook/order_book.py) ----
    books,           \* _books: symbol -> the replicas of its order book
    \* ---- LatencyArbitrageEngine (strategy/arbitrage.py) ----
    venue_quotes,    \* _venue_quotes: symbol -> quotes in insertion order
    arb_ret,         \* what the last evaluate returned: <<signal>> or <<>>
    md_event         \* the last market-data event applied, <<>> before any

market_vars == <<books, venue_quotes, arb_ret, md_event>>

VARIABLES
    \* ---- SmartOrderRouter (execution/smart_router.py) ----
    config_venues,   \* config.venues, the configured venue list
    route_ret        \* the last route_signal call and its outcome, <<>> before any

router_vars == <<config_venues, route_ret>>

VARIABLES
    \* ---- HFTOrchestrator lifecycle (orchestrator.py) ----
    orch,            \* _running, the feed handler's _running, and the tasks
    life_pc,         \* the task a stop() in progress awaits, "idle" if none
    life_call,       \* the last start() or stop() that returned
    life_log         \* the start() and stop() calls made, in order

life_vars == <<orch, life_pc, life_call, life_log>>

VARIABLES
    \* ---- MarketMakingEngine (strategy/market_maker.py) ----
    mm_positions,    \* _positions: symbol -> MMPosition
    mm_ret           \* the last generate_quotes call and what it returned

mm_vars == <<mm_positions, mm_ret>>

VARIABLES
    \* ---- OrderBookManager failover, feed statistics ----
    primary,         \* _primary: symbol -> index of the primary replica
    parse_errors,    \* FeedStats.parse_errors of the feed handler
    book_call        \* the last call made on the OrderBookManager, and
                     \* whether its prices had a level before it

book_vars == <<primary, parse_errors, book_call>>

VARIABLES
    \* ---- NanosecondClock (clock.py) ----
    clock_seq,       \* _seq
    clock_log        \* the Timestamps returned by now(), in call order

clock_vars == <<clock_seq, clock_log>>

vars == <<queue_vars, risk_vars, exec_vars, market_vars, router_vars,
          life_vars, mm_vars, book_vars, clock_vars>>

Min(a, b) == IF a <= b THEN a ELSE b
Max(a, b) == IF a >= b THEN a ELSE b
Abs(a) == IF a < 0 THEN -a ELSE a
Range(s) == {s[i] : i \in DOMAIN s}

\* Python dict / defaultdict as a function on the keys present
EmptyDict == <<>>
DictSet(d, k, v) == [x \in DOMAIN d \cup {k} |-> IF x = k THEN v ELSE d[x]]
DictGet(d, k, default) == IF k \in DOMAIN d THEN d[k] ELSE default
\* collections.deque(maxlen=m).append
DequeAppend(s, x, m) == IF Len(s) >= m THEN Append(Tail(s), x) ELSE Append(s, x)

(***************************************************************************)
(* LockFreeEventQueue                                                      *)
(* The deque holds (timestamp, event) pairs; the timestamps feed only the  *)
(* latency statistics, which no operation reads back, so an entry is       *)
(* modelled by its event.  Events are the producer's non-None objects,     *)
(* numbered in publish order.                                              *)
(***************************************************************************)

\* publish, line 42: the queue is full
IsFull(buf) == Len(buf) >= Capacity

\* a publish that makes room by discarding the newest entry instead
PublishBuffer_DropNewest(buf, ev) ==
    IF IsFull(buf) THEN Append(SubSeq(buf, 1, Len(buf) - 1), ev)
    ELSE Append(buf, ev)

\* publish, lines 42-46: popleft when full, then append
PublishBuffer(buf, ev) ==
    IF IsFull(buf) THEN Append(Tail(buf), ev) ELSE Append(buf, ev)

\* a publish that does not count the entry it discards
PublishOverflow_Uncounted(buf, n) == n

\* publish, lines 42-43: overflow counter
PublishOverflow(buf, n) == IF IsFull(buf) THEN n + 1 ELSE n

Publish(ev) ==
    /\ buffer' = PublishBuffer(buffer, ev)
    /\ overflow_count' = PublishOverflow(buffer, overflow_count)
    /\ enqueue_count' = enqueue_count + 1
    /\ q_call' = [op |-> "publish", ev |-> ev]
    /\ q_ret' = <<>>
    /\ UNCHANGED <<dequeue_count, delivered>>

\* a consume that takes the newest entry (pop instead of popleft)
ConsumeOne_Newest(st) ==
    IF st.buf = <<>> THEN st
    ELSE [buf |-> SubSeq(st.buf, 1, Len(st.buf) - 1),
          batch |-> Append(st.batch, st.buf[Len(st.buf)]),
          deq |-> st.deq + 1]

\* consume, lines 50-61, with the caller's append of line 68: st is
\* [buf, batch, deq]; an empty buffer returns None and appends nothing
ConsumeOne(st) ==
    IF st.buf = <<>> THEN st
    ELSE [buf |-> Tail(st.buf),
          batch |-> Append(st.batch, Head(st.buf)),
          deq |-> st.deq + 1]

\* consume_batch, lines 64-69: the loop body run k times
RECURSIVE ConsumeLoop(_, _)
ConsumeLoop(st, k) ==
    IF k <= 0 THEN st ELSE ConsumeLoop(ConsumeOne(st), k - 1)

\* consume_batch, line 65: range(min(max_items, len(buffer)))
BatchRange(max_items, buf) == Min(max_items, Len(buf))

ConsumeBatch(max_items) ==
    LET st == ConsumeLoop([buf |-> buffer, batch |-> <<>>, deq |-> dequeue_count],
                          BatchRange(max_items, buffer))
    IN  /\ buffer' = st.buf
        /\ dequeue_count' = st.deq
        /\ q_ret' = st.batch
        /\ delivered' = delivered \o st.batch
        /\ q_call' = [op |-> "consume_batch", n |-> max_items]
        /\ UNCHANGED <<enqueue_count, overflow_count>>

\* reset_stats, lines 97-102
ResetStats ==
    /\ enqueue_count' = 0
    /\ dequeue_count' = 0
    /\ overflow_count' = 0
    /\ q_call' = [op |-> "reset_stats"]
    /\ q_ret' = <<>>
    /\ UNCHANGED <<buffer, delivered>>

\* __init__, lines 29-38
QueueInit ==
    /\ buffer = <<>>
    /\ enqueue_count = 0
    /\ dequeue_count = 0
    /\ overflow_count = 0
    /\ next_event = 1
    /\ delivered = <<>>
    /\ q_call = [op |-> "init"]
    /\ q_ret = <<>>

\* the feed handler publishes its next event (feed_handler.py line 130)
ProducerPublish ==
    /\ next_event <= MaxEvents
    /\ Publish(next_event)
    /\ next_event' = next_event + 1

\* the consumer takes a batch (orchestrator.py line 184)
ConsumerBatch ==
    /\ \E n \in 0..MaxBatch : ConsumeBatch(n)
    /\ UNCHANGED next_event

QueueResetStats ==
    /\ ResetStats
    /\ UNCHANGED next_event


(***************************************************************************)
(* PositionTracker                                                         *)
(* Prices are whole numbers of the price unit.  The average prices and     *)
(* the P&L figures, floats in the source, are exact fractions [n, d] in    *)
(* lowest terms with d > 0, so no rounding error enters the model.  The    *)
(* traded-value totals, the fill counter and last_fill_ns are left out:    *)
(* apply_fill only accumulates them.                                       *)
(***************************************************************************)

RECURSIVE GCD(_, _)
GCD(a, b) == IF b = 0 THEN a ELSE GCD(b, a % b)

Rat(n, d) == LET g == GCD(Abs(n), d) IN [n |-> n \div g, d |-> d \div g]
RatInt(i) == [n |-> i, d |-> 1]
RatAdd(a, b) == Rat(a.n * b.d + b.n * a.d, a.d * b.d)
RatSub(a, b) == Rat(a.n * b.d - b.n * a.d, a.d * b.d)
RatTimes(a, k) == Rat(a.n * k, a.d)
RatOver(a, k) == Rat(a.n, a.d * k)

\* SymbolPosition(symbol=symbol), lines 19-33
NewPosition ==
    [net_qty |-> 0, long_qty |-> 0, short_qty |-> 0,
     avg_long_price |-> RatInt(0), avg_short_price |-> RatInt(0),
     realized_pnl |-> RatInt(0), unrealized_pnl |-> RatInt(0),
     total_buys |-> 0, total_sells |-> 0]

\* _get_or_create, lines 121-124, read-only
GetOrCreate(pos, symbol) ==
    IF symbol \in DOMAIN pos THEN pos[symbol] ELSE NewPosition

\* get_position_qty, lines 114-116
GetPositionQty(pos, symbol) ==
    IF symbol \in DOMAIN pos THEN pos[symbol].net_qty ELSE 0

\* _update_unrealized, lines 107-112
UpdateUnrealized(p, price) ==
    [p EXCEPT !.unrealized_pnl =
        IF p.net_qty > 0
        THEN RatTimes(RatSub(RatInt(price), p.avg_long_price), p.net_qty)
        ELSE IF p.net_qty < 0
             THEN RatTimes(RatSub(p.avg_short_price, RatInt(price)),
                           Abs(p.net_qty))
             ELSE RatInt(0)]

\* a BUY that moves net_qty only by the quantity that covers a short
ApplyBuy_CoverOnly(p, price, qty) ==
    IF p.net_qty < 0
    THEN [p EXCEPT !.total_buys = @ + qty,
                   !.short_qty = @ - Min(qty, Abs(p.net_qty)),
                   !.net_qty = @ + Min(qty, Abs(p.net_qty))]
    ELSE [p EXCEPT !.total_buys = @ + qty, !.net_qty = @ + qty,
                   !.long_qty = p.net_qty + qty]

\* apply_fill, the BUY branch, lines 62-76
ApplyBuy(p, price, qty) ==
    LET value == price * qty
        closed == Min(qty, Abs(p.net_qty))
        p1 == [p EXCEPT !.total_buys = @ + qty]
        p2 == IF p.net_qty < 0
              THEN [p1 EXCEPT
                      !.realized_pnl =
                          RatAdd(@, RatTimes(RatSub(p.avg_short_price,
                                                    RatInt(price)), closed)),
                      !.short_qty = @ - closed]
              ELSE p1
        net == p.net_qty + qty
        p3 == [p2 EXCEPT !.net_qty = net]
    IN  IF net > 0
        THEN LET total_cost == RatAdd(RatTimes(p3.avg_long_price, net - qty),
                                      RatInt(value))
             IN  [p3 EXCEPT !.long_qty = net,
                            !.avg_long_price = RatOver(total_cost, net)]
        ELSE p3

\* a SELL that opens the short side without closing the long side
ApplySell_KeepLong(p, price, qty) ==
    LET net == p.net_qty - qty
    IN  [p EXCEPT !.total_sells = @ + qty, !.net_qty = net,
                  !.short_qty = IF net < 0 THEN Abs(net) ELSE @]

\* apply_fill, the SELL branch, lines 79-93
ApplySell(p, price, qty) ==
    LET value == price * qty
        closed == Min(qty, p.net_qty)
        p1 == [p EXCEPT !.total_sells = @ + qty]
        p2 == IF p.net_qty > 0
              THEN [p1 EXCEPT
                      !.realized_pnl =
                          RatAdd(@, RatTimes(RatSub(RatInt(price),
                                                    p.avg_long_price), closed)),
                      !.long_qty = @ - closed]
              ELSE p1
        net == p.net_qty - qty
        p3 == [p2 EXCEPT !.net_qty = net]
    IN  IF net < 0
        THEN LET total_cost == RatAdd(RatTimes(p3.avg_short_price,
                                               Abs(net) - qty),
                                      RatInt(value))
             IN  [p3 EXCEPT !.short_qty = Abs(net),
                            !.avg_short_price = RatOver(total_cost, Abs(net))]
        ELSE p3

\* apply_fill, lines 54-96
PositionApplyFill(pos, fill) ==
    LET p == GetOrCreate(pos, fill.symbol)
        moved == IF fill.side = "BUY"
                 THEN ApplyBuy(p, fill.fill_price, fill.fill_qty)
                 ELSE ApplySell(p, fill.fill_price, fill.fill_qty)
    IN  DictSet(pos, fill.symbol, UpdateUnrealized(moved, fill.fill_price))

(***************************************************************************)
(* HFTRiskEngine                                                           *)
(* time.monotonic() is read once per check_order: the reads of lines 127,  *)
(* 160 and 171 fall within the same tick.  A reason string is modelled as  *)
(* the sequence of failure names that "; ".join concatenates.              *)
(***************************************************************************)

\* __init__, lines 48-60
RiskInit ==
    [daily_pnl |-> 0,
     circuit_breaker_active |-> FALSE,
     last_prices |-> EmptyDict,
     order_timestamps |-> <<>>,
     notional_window |-> <<>>,
     recent_order_ids |-> {},
     checks_run |-> 0,
     checks_passed |-> 0,
     checks_failed |-> 0,
     rejection_reasons |-> EmptyDict]

\* price * quantity of an order
Notional(o) == o.price * o.quantity

\* lines 147-148: pct_diff > threshold, with the division cleared
FatFingerExceeds(price, last_price) ==
    Abs(price - last_price) * 100 > FatFingerPct * last_price

\* a fat-finger check that moves the reference even when it rejects
CheckFatFinger_AlwaysUpdate(rs, o) ==
    [ok |-> \/ o.symbol \notin DOMAIN rs.last_prices
            \/ ~FatFingerExceeds(o.price, rs.last_prices[o.symbol]),
     rs |-> [rs EXCEPT !.last_prices = DictSet(@, o.symbol, o.price)]]

\* _check_fat_finger, lines 141-152
CheckFatFinger(rs, o) ==
    IF o.symbol \notin DOMAIN rs.last_prices
    THEN [ok |-> TRUE,
          rs |-> [rs EXCEPT !.last_prices = DictSet(@, o.symbol, o.price)]]
    ELSE IF FatFingerExceeds(o.price, rs.last_prices[o.symbol])
         THEN [ok |-> FALSE, rs |-> rs]
         ELSE [ok |-> TRUE,
               rs |-> [rs EXCEPT !.last_prices = DictSet(@, o.symbol, o.price)]]

\* _check_position_limit, lines 154-157
CheckPositionLimit(pos, o) ==
    LET current_pos == GetPositionQty(pos, o.symbol)
        projected == IF o.side = "BUY" THEN current_pos + o.quantity
                     ELSE current_pos - o.quantity
    IN  Abs(projected) <= PositionLimitPerSymbol

\* lines 162-163: popleft while the head is older than the cutoff
RECURSIVE PruneTimestamps(_, _)
PruneTimestamps(ts, cutoff) ==
    IF ts # <<>> /\ Head(ts) < cutoff THEN PruneTimestamps(Tail(ts), cutoff)
    ELSE ts

\* a rate check that admits one order too many
CheckOrderRate_OffByOne(rs, t) ==
    LET pruned == PruneTimestamps(rs.order_timestamps, t - Second)
    IN  [ok |-> Len(pruned) <= MaxOrdersPerSecond,
         rs |-> [rs EXCEPT !.order_timestamps = pruned]]

\* _check_order_rate, lines 159-164
CheckOrderRate(rs, t) ==
    LET pruned == PruneTimestamps(rs.order_timestamps, t - Second)
    IN  [ok |-> Len(pruned) < MaxOrdersPerSecond,
         rs |-> [rs EXCEPT !.order_timestamps = pruned]]

\* lines 173-174: popleft while the head entry is older than the cutoff
RECURSIVE PruneNotional(_, _)
PruneNotional(w, cutoff) ==
    IF w # <<>> /\ Head(w).t < cutoff THEN PruneNotional(Tail(w), cutoff)
    ELSE w

\* line 176: sum(n for _, n in window)
RECURSIVE SumNotional(_)
SumNotional(w) == IF w = <<>> THEN 0 ELSE Head(w).n + SumNotional(Tail(w))

\* _check_notional_limit, lines 166-177
CheckNotionalLimit(rs, o, t) ==
    IF Notional(o) > MaxOrderValue THEN [ok |-> FALSE, rs |-> rs]
    ELSE LET pruned == PruneNotional(rs.notional_window, t - Second)
         IN  [ok |-> SumNotional(pruned) + Notional(o) <= MaxNotionalPerSecond,
              rs |-> [rs EXCEPT !.notional_window = pruned]]

\* a daily-loss check that fails the order but forgets to latch the breaker
CheckDailyLoss_NoLatch(rs) ==
    IF Abs(rs.daily_pnl) > MaxDailyLoss /\ rs.daily_pnl < 0
    THEN [ok |-> FALSE, rs |-> rs]
    ELSE [ok |-> TRUE, rs |-> rs]

\* a daily-loss check that latches the breaker but lets the order pass
CheckDailyLoss_Silent(rs) ==
    IF Abs(rs.daily_pnl) > MaxDailyLoss /\ rs.daily_pnl < 0
    THEN [ok |-> TRUE, rs |-> [rs EXCEPT !.circuit_breaker_active = TRUE]]
    ELSE [ok |-> TRUE, rs |-> rs]

\* _check_daily_loss, lines 179-185
CheckDailyLoss(rs) ==
    IF Abs(rs.daily_pnl) > MaxDailyLoss /\ rs.daily_pnl < 0
    THEN [ok |-> FALSE, rs |-> [rs EXCEPT !.circuit_breaker_active = TRUE]]
    ELSE [ok |-> TRUE, rs |-> rs]

\* _check_duplicate, lines 187-188
CheckDuplicate(rs, o) == o.order_id \notin rs.recent_order_ids

\* lines 112-113: one count per failed reason
RECURSIVE CountReasons(_, _)
CountReasons(d, reasons) ==
    IF reasons = <<>> THEN d
    ELSE CountReasons(DictSet(d, Head(reasons), DictGet(d, Head(reasons), 0) + 1),
                      Tail(reasons))

\* _reject, lines 190-206
Reject(rs, o, reason, passed) ==
    [rs |-> [rs EXCEPT !.checks_failed = @ + 1,
                       !.rejection_reasons = CountReasons(@, <<reason>>)],
     decision |-> [order_id |-> o.order_id, approved |-> FALSE,
                   reason |-> <<reason>>, checks_passed |-> passed]]

\* a gate that skips the early return of lines 73-74
BreakerGate_Ignored(rs) == FALSE

\* check_order, line 73
BreakerGate(rs) == rs.circuit_breaker_active

Flag(ok, name) == IF ok THEN <<>> ELSE <<name>>

\* check_order, lines 62-139: rs is the engine, pos the position tracker,
\* t the clock; the result is the engine afterwards and the RiskDecision
CheckOrder(rs, pos, o, t) ==
    LET r0 == [rs EXCEPT !.checks_run = @ + 1]
    IN  IF BreakerGate(r0) THEN Reject(r0, o, "CIRCUIT_BREAKER_ACTIVE", 0)
        ELSE
        LET c1 == CheckFatFinger(r0, o)
            ok2 == CheckPositionLimit(pos, o)
            c3 == CheckOrderRate(c1.rs, t)
            c4 == CheckNotionalLimit(c3.rs, o, t)
            c5 == CheckDailyLoss(c4.rs)
            ok6 == CheckDuplicate(c5.rs, o)
            failures == Flag(c1.ok, "FAT_FINGER") \o Flag(ok2, "POSITION_LIMIT")
                        \o Flag(c3.ok, "ORDER_RATE_LIMIT")
                        \o Flag(c4.ok, "NOTIONAL_LIMIT")
                        \o Flag(c5.ok, "DAILY_LOSS_LIMIT")
                        \o Flag(ok6, "DUPLICATE_ORDER")
            passed == 7 - Len(failures)
            r6 == c5.rs
        IN  IF failures # <<>>
            THEN [rs |-> [r6 EXCEPT !.checks_failed = @ + 1,
                                    !.rejection_reasons = CountReasons(@, failures)],
                  decision |-> [order_id |-> o.order_id, approved |-> FALSE,
                                reason |-> failures, checks_passed |-> passed]]
            ELSE [rs |-> [r6 EXCEPT
                            !.checks_passed = @ + 1,
                            !.recent_order_ids = @ \cup {o.order_id},
                            !.order_timestamps =
                                DequeAppend(@, t, MaxOrdersPerSecond * 2),
                            !.notional_window =
                                DequeAppend(@, [t |-> t, n |-> Notional(o)],
                                            NotionalWindowMaxLen)],
                  decision |-> [order_id |-> o.order_id, approved |-> TRUE,
                                reason |-> <<"ALL_CHECKS_PASSED">>,
                                checks_passed |-> passed]]

\* update_daily_pnl, lines 208-209
UpdateDailyPnl(rs, pnl_change) == [rs EXCEPT !.daily_pnl = @ + pnl_change]

\* reset_daily, lines 211-215
ResetDaily(rs) ==
    [rs EXCEPT !.daily_pnl = 0,
               !.circuit_breaker_active = FALSE,
               !.recent_order_ids = {}]

\* history kept beside the engine: one entry per approval
LogApproval(log, decision, o, t) ==
    IF decision.approved
    THEN Append(log, [t |-> t, order_id |-> o.order_id, n |-> Notional(o)])
    ELSE log

\* the orders a caller may present to the gate
Orders == [order_id : OrderIds, symbol : Symbols, side : Sides,
           price : Prices, quantity : Qtys]

\* the orders presented where the clock runs
GateOrders == {o \in Orders : o.side = "BUY"}

\* the orders presented where only the daily-loss latch is exercised
BreakerOrders == {o \in Orders : o.side = "BUY" /\ o.quantity = 1}

\* positions the tracker may hold when the gate is exercised
StartFill == [order_id |-> 0, symbol |-> "X", side |-> "BUY",
              fill_price |-> 100, fill_qty |-> 1]
StartPositions == {EmptyDict, PositionApplyFill(EmptyDict, StartFill)}

RiskVarsInit ==
    /\ risk = RiskInit
    /\ positions = EmptyDict
    /\ tracker_fills = <<>>
    /\ now = 0
    /\ approved_log = <<>>
    /\ r_call = [op |-> "init"]
    /\ r_ret = [approved |-> FALSE, reason |-> <<>>]

\* a caller runs check_order on an order of the set S
RiskCheckOrder(S) ==
    /\ risk.checks_run < MaxChecks
    /\ \E o \in S :
         LET res == CheckOrder(risk, positions, o, now)
         IN  /\ risk' = res.rs
             /\ r_ret' = res.decision
             /\ r_call' = [op |-> "check_order", order |-> o]
             /\ approved_log' = LogApproval(approved_log, res.decision, o, now)
    /\ UNCHANGED <<positions, tracker_fills, now>>

\* a caller reports a P&L change
RiskUpdateDailyPnl ==
    /\ \E level \in PnlLevels \ {risk.daily_pnl} :
         LET d == level - risk.daily_pnl
         IN  /\ risk' = UpdateDailyPnl(risk, d)
             /\ r_call' = [op |-> "update_daily_pnl", pnl_change |-> d]
    /\ UNCHANGED <<positions, tracker_fills, now, approved_log, r_ret>>

\* a caller resets the daily counters
RiskResetDaily ==
    /\ risk' = ResetDaily(risk)
    /\ r_call' = [op |-> "reset_daily"]
    /\ UNCHANGED <<positions, tracker_fills, now, approved_log, r_ret>>

\* the monotonic clock advances
Tick ==
    /\ now < MaxTime
    /\ now' = now + 1
    /\ UNCHANGED <<risk, positions, tracker_fills, approved_log, r_call, r_ret>>

(***************************************************************************)
(* OrderManagementSystem                                                   *)
(* An order id is the number of the order in creation order (the source    *)
(* draws a fresh uuid); parent_order_id 0 stands for the empty string.     *)
(* The OMS keeps the OrderEvent objects it hands out, so the router and    *)
(* the gateway, which assign to fields of those objects, change the order  *)
(* the OMS holds.  Fees, traded value and the bounded _order_history are   *)
(* left out: no operation reads them back.                                 *)
(***************************************************************************)

\* OrderStatus, event_types.py
Statuses == {"PENDING", "SENT", "ACKED", "PARTIALLY_FILLED", "FILLED",
             "CANCELLED", "REJECTED"}

\* __init__, lines 30-41
OmsInit ==
    [orders |-> EmptyDict, fills |-> EmptyDict, total_orders |-> 0,
     total_fills |-> 0, orders_by_status |-> EmptyDict]

\* create_order, lines 43-76; the new order is orders[total_orders]
CreateOrder(om, symbol, side, price, quantity, venue, parent_order_id) ==
    LET order_id == om.total_orders + 1
        order == [order_id |-> order_id, symbol |-> symbol, side |-> side,
                  price |-> price, quantity |-> quantity, venue |-> venue,
                  status |-> "PENDING", filled_qty |-> 0,
                  remaining_qty |-> quantity,
                  parent_order_id |-> parent_order_id]
    IN  [om EXCEPT !.orders = DictSet(@, order_id, order),
                   !.total_orders = @ + 1,
                   !.orders_by_status =
                       DictSet(@, "PENDING", DictGet(@, "PENDING", 0) + 1)]

\* update_status, lines 78-89
UpdateStatus(om, order_id, new_status) ==
    IF order_id \notin DOMAIN om.orders THEN om
    ELSE LET old_status == om.orders[order_id].status
             dec == IF old_status \in DOMAIN om.orders_by_status
                    THEN DictSet(om.orders_by_status, old_status,
                                 Max(0, om.orders_by_status[old_status] - 1))
                    ELSE om.orders_by_status
         IN  [om EXCEPT !.orders[order_id].status = new_status,
                        !.orders_by_status =
                            DictSet(dec, new_status,
                                    DictGet(dec, new_status, 0) + 1)]

\* apply_fill, lines 97-98
ApplyFillQty(o, fill_qty) ==
    LET filled == o.filled_qty + fill_qty
    IN  [o EXCEPT !.filled_qty = filled,
                  !.remaining_qty = Max(0, o.quantity - filled)]

\* apply_fill, lines 91-106
ApplyFill(om, fill) ==
    IF fill.order_id \notin DOMAIN om.orders THEN om
    ELSE LET counted == [om EXCEPT
                            !.fills = DictSet(@, fill.order_id,
                                Append(DictGet(@, fill.order_id, <<>>), fill)),
                            !.orders[fill.order_id] =
                                ApplyFillQty(@, fill.fill_qty)]
             moved == UpdateStatus(counted, fill.order_id,
                                   IF fill.is_final THEN "FILLED"
                                   ELSE "PARTIALLY_FILLED")
         IN  [moved EXCEPT !.total_fills = @ + 1]

(***************************************************************************)
(* SmartOrderRouter                                                        *)
(* Venue weights are the normalised venue scores in thousandths, sorted    *)
(* as sorted_venues sorts them; int(target_qty * weight) is the integer    *)
(* quotient.  The scores drift with update_venue_score, so a split takes   *)
(* one of the weight profiles the scores can produce.                      *)
(***************************************************************************)

\* _get_venue_weights with the scores of __init__ (lines 52-53)
InitialWeights ==
    << [venue |-> "BATS", weight |-> 240], [venue |-> "NASDAQ", weight |-> 220],
       [venue |-> "ARCA", weight |-> 213], [venue |-> "NYSE", weight |-> 205],
       [venue |-> "IEX", weight |-> 122] >>

\* _get_venue_weights once BATS has the best score and fill rate that
\* update_venue_score allows and the other venues the worst
SkewedWeights ==
    << [venue |-> "BATS", weight |-> 445], [venue |-> "NASDAQ", weight |-> 183],
       [venue |-> "ARCA", weight |-> 173], [venue |-> "NYSE", weight |-> 161],
       [venue |-> "IEX", weight |-> 38] >>

WeightProfiles == {InitialWeights, SkewedWeights}

\* ExecutionConfig.venues as configured by default
DefaultVenues == <<"NASDAQ", "NYSE", "BATS", "IEX", "ARCA">>

RECURSIVE SumWeights(_)
SumWeights(weights) ==
    IF weights = <<>> THEN 0
    ELSE Head(weights).weight + SumWeights(Tail(weights))

\* _get_venue_weights, lines 144-159: a configured venue without a
\* VENUE_CONFIGS entry is skipped, and the scores of the others are
\* normalised by their total; profile holds the scores of the known venues
GetVenueWeights(venue_list, profile) ==
    LET raw == SelectSeq(profile, LAMBDA w : w.venue \in Range(venue_list))
        total == SumWeights(raw)
    IN  [i \in DOMAIN raw |->
            [venue |-> raw[i].venue, weight |-> (raw[i].weight * 1000) \div total]]

\* _select_best_venue, lines 77-105: <<venue>>, or <<>> when line 104 raises
\* IndexError.  The best-scored known venue is the head of the weights;
\* with no known venue the first configured venue is returned.
SelectBestVenue(venue_list, weights) ==
    IF weights # <<>> THEN <<Head(weights).venue>>
    ELSE IF venue_list # <<>> THEN <<venue_list[1]>>
         ELSE <<>>

\* lines 120-121
SliceQty(target_qty, weight, remaining) ==
    Min(Min(Max(1, (target_qty * weight) \div 1000), remaining), MaxSliceSize)

\* _split_order, the loop of lines 116-135; st carries the OMS, the ids of
\* the orders created so far and the quantity still to place
RECURSIVE SplitLoop(_, _, _, _)
SplitLoop(st, signal, parent_id, venues) ==
    IF venues = <<>> \/ st.remaining <= 0 THEN st
    ELSE LET slice_qty == SliceQty(signal.target_qty, Head(venues).weight,
                                   st.remaining)
             om == CreateOrder(st.oms, signal.symbol, signal.side,
                               signal.target_price, slice_qty,
                               Head(venues).venue, parent_id)
         IN  SplitLoop([oms |-> om,
                        orders |-> Append(st.orders, om.total_orders),
                        remaining |-> st.remaining - slice_qty],
                       signal, parent_id, Tail(venues))

\* a residual that is added to the quantity but not to remaining_qty
SplitResidual_QuantityOnly(om, orders, remaining) ==
    IF remaining > 0 /\ orders # <<>>
    THEN [om EXCEPT !.orders[orders[Len(orders)]].quantity = @ + remaining]
    ELSE om

\* a split that leaves the residual unplaced
SplitResidual_Dropped(om, orders, remaining) == om

\* _split_order, lines 137-139
SplitResidual(om, orders, remaining) ==
    IF remaining > 0 /\ orders # <<>>
    THEN [om EXCEPT !.orders[orders[Len(orders)]].quantity = @ + remaining,
                    !.orders[orders[Len(orders)]].remaining_qty = @ + remaining]
    ELSE om

\* _split_order, lines 107-142
SplitOrder(om, signal, parent_id, venues) ==
    LET st == SplitLoop([oms |-> om, orders |-> <<>>,
                         remaining |-> signal.target_qty],
                        signal, parent_id, venues)
    IN  [oms |-> SplitResidual(st.oms, st.orders, st.remaining),
         orders |-> st.orders]

\* route_signal, lines 55-75; profile holds the venue scores of the moment.
\* raised is TRUE when the call ends in an exception.
RouteSignal(om, signal, parent_id, venue_list, profile) ==
    LET weights == GetVenueWeights(venue_list, profile)
    IN  IF signal.target_qty <= MaxSliceSize
        THEN LET best == SelectBestVenue(venue_list, weights)
                 created == CreateOrder(om, signal.symbol, signal.side,
                                        signal.target_price, signal.target_qty,
                                        best[1], 0)
             IN  IF best = <<>>
                 THEN [oms |-> om, orders |-> <<>>, raised |-> TRUE]
                 ELSE [oms |-> created, orders |-> <<created.total_orders>>,
                       raised |-> FALSE]
        ELSE LET split == SplitOrder(om, signal, parent_id, weights)
             IN  [oms |-> split.oms, orders |-> split.orders, raised |-> FALSE]

(***************************************************************************)
(* ExchangeGateway / ExchangeSimulator                                     *)
(* Every venue of the weight profiles has a simulator, so an order the     *)
(* execution path routes over the default venues never meets the rejection *)
(* of an unknown venue (lines 181-183).  The random draws of               *)
(* the simulator are choices of the caller's action.  Fills are priced at  *)
(* the order price: the slippage of line 118 is left out.                  *)
(***************************************************************************)

\* ExchangeSimulator.submit_order after its sleep, lines 86-98: the order
\* is rejected (the 2% draw) or acknowledged
SubmitOrder(om, order_id, rejected) ==
    IF rejected
    THEN [om EXCEPT !.orders[order_id].status = "REJECTED"]
    ELSE [om EXCEPT !.orders[order_id].status = "ACKED",
                    !.orders[order_id].remaining_qty =
                        om.orders[order_id].quantity]

\* lines 110-116 for a LIMIT order: the quantities int(remaining * ratio)
\* takes for a ratio in [0.5, 1.0], at least 1 and at most remaining
FillQtys(remaining) == Max(1, remaining \div 2)..remaining

\* simulate_fills, the loop of lines 108-156: every list of fills the loop
\* can return for the quantity still unfilled
RECURSIVE FillRuns(_, _)
FillRuns(order, remaining) ==
    UNION { LET left == remaining - fill_qty
                fill == [order_id |-> order.order_id, symbol |-> order.symbol,
                         side |-> order.side, fill_price |-> order.price,
                         fill_qty |-> fill_qty, remaining_qty |-> left,
                         is_final |-> left = 0]
            IN  IF left = 0 THEN {<<fill>>}
                ELSE {<<fill>>} \cup
                     {<<fill>> \o rest : rest \in FillRuns(order, left)}
          : fill_qty \in FillQtys(remaining) }

\* a simulator that fills an order whatever its status
SimulateFills_IgnoreStatus(order) == FillRuns(order, order.quantity)

\* simulate_fills, lines 100-158
SimulateFills(order) ==
    IF order.status # "ACKED" THEN {<<>>}
    ELSE FillRuns(order, order.quantity)

(***************************************************************************)
(* HFTOrchestrator._execute_signal                                         *)
(* The pipeline loop and the market-making loop each run _execute_signal   *)
(* as a coroutine of one event loop.  A coroutine gives up the event loop  *)
(* only in the sleep of ExchangeSimulator.submit_order; route_signal and   *)
(* get_fills never suspend.  The clock advances at any point.              *)
(***************************************************************************)

Tasks == {"pipeline", "market_making"}

\* the signals the strategies emit: one symbol, one price, a quantity that
\* fits one slice or one that is split
SignalQtys == {MaxSliceSize, 3 * MaxSliceSize}
Signals == [symbol : Symbols, side : Sides, target_price : {100},
            target_qty : SignalQtys]

IdleTask == [pc |-> "idle", orders |-> <<>>, idx |-> 1]

ExecVarsInit ==
    /\ oms = OmsInit
    /\ o_call = [op |-> "init"]
    /\ tasks = [t \in Tasks |-> IdleTask]
    /\ running = "none"
    /\ signals_done = 0
    /\ order_log = EmptyDict

\* lines 281-283: the P&L change reported for a fill, in thousandths
FillPnl(fill) ==
    fill.fill_price * fill.fill_qty * (IF fill.side = "SELL" THEN 1 ELSE -1)

\* MMPosition(symbol=symbol), lines 50-61
NewMMPosition ==
    [net_position |-> 0, long_qty |-> 0, short_qty |-> 0,
     trades_count |-> 0, total_volume |-> 0]

\* _get_position, lines 220-223, read-only
GetMMPosition(mp, symbol) ==
    IF symbol \in DOMAIN mp THEN mp[symbol] ELSE NewMMPosition

\* an apply_fill that counts every fill as bought
MMApplyFill_Unsigned(p, side, qty) ==
    [p EXCEPT !.trades_count = @ + 1, !.total_volume = @ + qty,
              !.long_qty = @ + qty, !.net_position = @ + qty]

\* MMPosition.apply_fill, lines 63-92
MMApplyFill(p, side, qty) ==
    LET counted == [p EXCEPT !.trades_count = @ + 1, !.total_volume = @ + qty]
    IN  IF side = "BUY"
        THEN IF p.net_position >= 0
             THEN [counted EXCEPT !.long_qty = @ + qty,
                                  !.net_position = @ + qty]
             ELSE [counted EXCEPT
                      !.short_qty = @ - Min(qty, Abs(p.net_position)),
                      !.net_position = @ + qty]
        ELSE IF p.net_position <= 0
             THEN [counted EXCEPT !.short_qty = @ + qty,
                                  !.net_position = @ - qty]
             ELSE [counted EXCEPT
                      !.long_qty = @ - Min(qty, p.net_position),
                      !.net_position = @ - qty]

\* on_fill, lines 213-218
OnFill(mp, fill) ==
    DictSet(mp, fill.symbol,
            MMApplyFill(GetMMPosition(mp, fill.symbol), fill.side, fill.fill_qty))

\* lines 277-285: each fill goes to the OMS, the position tracker, the
\* market maker and the risk engine; st carries the four
RECURSIVE ApplyFills(_, _)
ApplyFills(st, fills) ==
    IF fills = <<>> THEN st
    ELSE LET fill == Head(fills)
         IN  ApplyFills([oms |-> ApplyFill(st.oms, fill),
                         positions |-> PositionApplyFill(st.positions, fill),
                         tracker_fills |-> Append(st.tracker_fills, fill),
                         mm_positions |-> OnFill(st.mm_positions, fill),
                         risk |-> UpdateDailyPnl(st.risk, FillPnl(fill))],
                        Tail(fills))

\* the for loop of line 263 moves to the next order, or the call returns
NextOrder(task) ==
    IF task.idx + 1 > Len(task.orders) THEN IdleTask
    ELSE [task EXCEPT !.pc = "check", !.idx = @ + 1]

Holder(t, task) == IF task.pc = "idle" THEN "none" ELSE t

\* lines 256-261: a loop calls _execute_signal and the router creates the
\* orders of the signal
ExecRoute(t) ==
    /\ running = "none"
    /\ tasks[t].pc = "idle"
    /\ signals_done < MaxSignals
    /\ \E signal \in Signals, venues \in WeightProfiles :
         LET routed == RouteSignal(oms, signal, signals_done + 1,
                                   config_venues, venues)
         IN  /\ oms' = routed.oms
             /\ tasks' = [tasks EXCEPT ![t] = [pc |-> "check",
                                               orders |-> routed.orders,
                                               idx |-> 1]]
             /\ o_call' = [op |-> "route_signal", signal |-> signal]
    /\ running' = t
    /\ signals_done' = signals_done + 1
    /\ UNCHANGED <<risk_vars, order_log>>

\* lines 263-269: the risk gate decides the current order; a rejected order
\* is marked REJECTED, an approved one is handed to the gateway
ExecCheck(t) ==
    /\ running = t
    /\ tasks[t].pc = "check"
    /\ LET order == oms.orders[tasks[t].orders[tasks[t].idx]]
           res == CheckOrder(risk, positions, order, now)
       IN  /\ risk' = res.rs
           /\ r_ret' = res.decision
           /\ r_call' = [op |-> "check_order", order |-> order]
           /\ approved_log' = LogApproval(approved_log, res.decision, order, now)
           /\ order_log' = DictSet(order_log, order.order_id,
                  IF res.decision.approved
                  THEN [risk |-> "approved", gateway |-> "submitted"]
                  ELSE [risk |-> "rejected", gateway |-> "none"])
           /\ IF res.decision.approved
              THEN /\ tasks' = [tasks EXCEPT ![t].pc = "submit"]
                   /\ running' = "none"
                   /\ UNCHANGED <<oms, o_call>>
              ELSE /\ oms' = UpdateStatus(oms, order.order_id, "REJECTED")
                   /\ o_call' = [op |-> "update_status",
                                 order_id |-> order.order_id,
                                 new_status |-> "REJECTED"]
                   /\ tasks' = [tasks EXCEPT ![t] = NextOrder(@)]
                   /\ running' = Holder(t, NextOrder(tasks[t]))
    /\ UNCHANGED <<positions, tracker_fills, now, signals_done>>

\* lines 272-290: the gateway answers, the OMS takes the answer, and the
\* fills of an acknowledged order are applied
ExecSubmit(t) ==
    /\ running = "none"
    /\ tasks[t].pc = "submit"
    /\ LET order_id == tasks[t].orders[tasks[t].idx]
       IN  \E rejected \in BOOLEAN :
             LET answered == SubmitOrder(oms, order_id, rejected)
                 acked_order == answered.orders[order_id]
                 updated == UpdateStatus(answered, order_id, acked_order.status)
             IN  \E fills \in SimulateFills(acked_order) :
                   LET st == ApplyFills([oms |-> updated,
                                         positions |-> positions,
                                         tracker_fills |-> tracker_fills,
                                         mm_positions |-> mm_positions,
                                         risk |-> risk], fills)
                   IN  /\ oms' = st.oms
                       /\ positions' = st.positions
                       /\ tracker_fills' = st.tracker_fills
                       /\ mm_positions' = st.mm_positions
                       /\ risk' = st.risk
                       /\ order_log' = [order_log EXCEPT ![order_id].gateway =
                                            acked_order.status]
                       /\ o_call' = [op |-> "submit_order",
                                     order_id |-> order_id,
                                     status |-> acked_order.status,
                                     fills |-> fills]
    /\ tasks' = [tasks EXCEPT ![t] = NextOrder(@)]
    /\ running' = Holder(t, NextOrder(tasks[t]))
    /\ UNCHANGED <<now, approved_log, r_call, r_ret, signals_done, mm_ret>>

(***************************************************************************)
(* The OMS driven through its public methods                               *)
(***************************************************************************)

\* the fills a caller may report: any quantity up to a slice, final or not
OmsFills == [order_id : 1..MaxOmsOrders, fill_qty : 1..MaxSliceSize,
             is_final : BOOLEAN]

OmsCreateOrder ==
    /\ oms.total_orders < MaxOmsOrders
    /\ \E quantity \in 1..MaxSliceSize :
         /\ oms' = CreateOrder(oms, "X", "BUY", 100, quantity, "BATS", 0)
         /\ o_call' = [op |-> "create_order", quantity |-> quantity]
    /\ UNCHANGED <<tasks, running, signals_done, order_log>>

OmsUpdateStatus ==
    /\ \E order_id \in 1..MaxOmsOrders, new_status \in Statuses :
         /\ oms' = UpdateStatus(oms, order_id, new_status)
         /\ o_call' = [op |-> "update_status", order_id |-> order_id,
                       new_status |-> new_status]
    /\ UNCHANGED <<tasks, running, signals_done, order_log>>

OmsApplyFill ==
    /\ oms.total_fills < MaxOmsFills
    /\ \E fill \in OmsFills :
         /\ oms' = ApplyFill(oms, fill)
         /\ o_call' = [op |-> "apply_fill", fill |-> fill]
    /\ UNCHANGED <<tasks, running, signals_done, order_log>>

(***************************************************************************)
(* The position tracker driven through apply_fill                          *)
(***************************************************************************)

\* the fills a caller may report: two symbols, two prices, positive sizes
TrackerFills == [symbol : {"X", "Y"}, side : Sides, fill_price : {100, 106},
                 fill_qty : 1..MaxSliceSize]

TrackerApplyFill ==
    /\ Len(tracker_fills) < MaxTrackerFills
    /\ \E fill \in TrackerFills :
         /\ positions' = PositionApplyFill(positions, fill)
         /\ tracker_fills' = Append(tracker_fills, fill)
    /\ UNCHANGED <<risk, now, approved_log, r_call, r_ret>>

(***************************************************************************)
(* OrderBook / OrderBookManager                                            *)
(* Prices are whole numbers of cents.  A side is the sorted price list     *)
(* (_bid_prices, _ask_prices, ascending) with the level of each price.     *)
(* The update timestamps are left out.                                     *)
(***************************************************************************)

\* OrderBook.__init__, lines 31-45
NewBook ==
    [bid_prices |-> <<>>, ask_prices |-> <<>>,
     bid_levels |-> EmptyDict, ask_levels |-> EmptyDict,
     update_count |-> 0, last_trade_price |-> 0, last_trade_size |-> 0,
     total_volume |-> 0, vwap_numerator |-> 0]

\* bisect.insort of a price that is not in the list
RECURSIVE Insort(_, _)
Insort(prices, price) ==
    IF prices = <<>> \/ price < Head(prices) THEN <<price>> \o prices
    ELSE <<Head(prices)>> \o Insort(Tail(prices), price)

\* list.remove
ListRemove(prices, price) == SelectSeq(prices, LAMBDA x : x # price)

DictDel(d, k) == [x \in DOMAIN d \ {k} |-> d[x]]

\* an update that adds the size to the quantity the level holds
UpdateLevel_Accumulate(side, price, size) ==
    IF price \in DOMAIN side.levels
    THEN [side EXCEPT !.levels[price].total_quantity = @ + size]
    ELSE IF size = 0 THEN side
         ELSE [prices |-> Insort(side.prices, price),
               levels |-> DictSet(side.levels, price,
                                  [total_quantity |-> size, order_count |-> 1])]

\* _update_bid_level / _update_ask_level, lines 68-92, on one side: the
\* level takes the size, a new level enters the sorted list, and a level of
\* size 0 is removed (lines 94-108)
UpdateLevel(side, price, size) ==
    LET set == IF price \in DOMAIN side.levels
               THEN [side EXCEPT !.levels[price].total_quantity = size]
               ELSE [prices |-> Insort(side.prices, price),
                     levels |-> DictSet(side.levels, price,
                                        [total_quantity |-> size,
                                         order_count |-> 1])]
    IN  IF size = 0
        THEN [prices |-> ListRemove(set.prices, price),
              levels |-> DictDel(set.levels, price)]
        ELSE set

\* apply_l1_update, lines 47-57
ApplyL1Update(book, event) ==
    LET bids == IF event.bid_price > 0
                THEN UpdateLevel([prices |-> book.bid_prices,
                                  levels |-> book.bid_levels],
                                 event.bid_price, event.bid_size)
                ELSE [prices |-> book.bid_prices, levels |-> book.bid_levels]
        asks == IF event.ask_price > 0
                THEN UpdateLevel([prices |-> book.ask_prices,
                                  levels |-> book.ask_levels],
                                 event.ask_price, event.ask_size)
                ELSE [prices |-> book.ask_prices, levels |-> book.ask_levels]
    IN  [book EXCEPT !.bid_prices = bids.prices, !.bid_levels = bids.levels,
                     !.ask_prices = asks.prices, !.ask_levels = asks.levels,
                     !.update_count = @ + 1]

\* apply_trade, lines 59-66
ApplyTrade(book, event) ==
    IF event.trade_price > 0
    THEN [book EXCEPT !.last_trade_price = event.trade_price,
                      !.last_trade_size = event.trade_size,
                      !.total_volume = @ + event.trade_size,
                      !.vwap_numerator = @ + event.trade_price * event.trade_size,
                      !.update_count = @ + 1]
    ELSE book

\* best_bid / best_ask, lines 110-116, of a populated side
BestBid(book) == book.bid_prices[Len(book.bid_prices)]
BestAsk(book) == book.ask_prices[1]

\* both sides of the book hold a level
Populated(book) == book.bid_prices # <<>> /\ book.ask_prices # <<>>

\* register_symbol, lines 206-212
RegisterSymbol(bks, symbol) ==
    IF symbol \in DOMAIN bks THEN bks
    ELSE DictSet(bks, symbol, [i \in 1..ReplicaCount |-> NewBook])

\* an apply_event that writes the first replica only
ApplyEvent_FirstReplica(bks, event) ==
    LET registered == RegisterSymbol(bks, event.symbol)
    IN  [registered EXCEPT ![event.symbol][1] = ApplyL1Update(@, event)]

\* apply_event, lines 214-224
ApplyEvent(bks, event) ==
    LET registered == RegisterSymbol(bks, event.symbol)
    IN  [registered EXCEPT ![event.symbol] =
            [i \in DOMAIN @ |->
                IF event.event_type \in {"MARKET_DATA_L1", "MARKET_DATA_L2"}
                THEN ApplyL1Update(@[i], event)
                ELSE IF event.event_type = "MARKET_DATA_TRADE"
                     THEN ApplyL1Update(ApplyTrade(@[i], event), event)
                     ELSE @[i]]]

(***************************************************************************)
(* LatencyArbitrageEngine                                                  *)
(* The quotes of a symbol are kept in the insertion order of the dict      *)
(* that holds them.  Timestamps are nanoseconds.  latency_advantage_us is  *)
(* kept in hundredths of a microsecond, the two decimals round() leaves;   *)
(* spread_bps and estimated_profit of the signal are left out.             *)
(***************************************************************************)

\* evaluate, lines 75-82: the venue's quote is replaced where it stands, a
\* new venue goes to the end
RECURSIVE SetQuote(_, _)
SetQuote(quotes, quote) ==
    IF quotes = <<>> THEN <<quote>>
    ELSE IF Head(quotes).venue = quote.venue THEN <<quote>> \o Tail(quotes)
         ELSE <<Head(quotes)>> \o SetQuote(Tail(quotes), quote)

\* _mark_stale, lines 88-92
MarkStale(quotes, current_ns) ==
    [i \in DOMAIN quotes |->
        [quotes[i] EXCEPT !.stale =
            current_ns - quotes[i].timestamp_ns > ArbStalenessThresholdUs * 1000]]

\* the loop of lines 106-114: the first quote with the highest bid and the
\* first with the lowest ask; best_bid starts at 0.0, best_ask at infinity
RECURSIVE ScanBest(_, _)
ScanBest(quotes, best) ==
    IF quotes = <<>> THEN best
    ELSE LET q == Head(quotes)
             b1 == IF q.bid > best.bid
                   THEN [best EXCEPT !.bid = q.bid, !.bid_quote = <<q>>]
                   ELSE best
             b2 == IF b1.ask_quote = <<>> \/ q.ask < b1.ask
                   THEN [b1 EXCEPT !.ask = q.ask, !.ask_quote = <<q>>]
                   ELSE b1
         IN  ScanBest(Tail(quotes), b2)

\* lines 122-125 with the division cleared:
\* ((bid - ask) / ((bid + ask) / 2)) * 10000 >= arb_min_profit_bps
SpreadReaches(bid, ask) ==
    (bid - ask) * 2 * 10000 * 10 >= ArbMinProfitTenthBps * (bid + ask)

\* a detector that leaves the latency advantage in whole microseconds
LatencyAdvantage_WholeUs(ns) == (ns \div 1000) * 100

\* round(latency_adv_ns / 1000, 2) in hundredths of a microsecond
LatencyAdvantage(ns) == (ns + 5) \div 10

\* _scan_for_arb, lines 94-170: <<signal>> or <<>> for None
ScanForArb(quotes, symbol) ==
    IF Len(quotes) < 2 THEN <<>>
    ELSE LET best == ScanBest(quotes, [bid |-> 0, bid_quote |-> <<>>,
                                       ask |-> 0, ask_quote |-> <<>>])
         IN  IF /\ best.bid_quote # <<>>
                /\ best.ask_quote # <<>>
                /\ best.bid_quote[1].venue # best.ask_quote[1].venue
                /\ best.bid > best.ask
                /\ SpreadReaches(best.bid, best.ask)
             THEN << [strategy_id |-> "ARB-CORE", symbol |-> symbol,
                      side |-> "BUY", target_price |-> best.ask,
                      target_qty |-> Min(Min(best.bid_quote[1].bid_size,
                                             best.ask_quote[1].ask_size),
                                         ArbMaxQty),
                      signal_type |-> "latency_arbitrage",
                      buy_venue |-> best.ask_quote[1].venue,
                      sell_venue |-> best.bid_quote[1].venue,
                      sell_price |-> best.bid,
                      latency_advantage_us |->
                          LatencyAdvantage(Abs(best.bid_quote[1].timestamp_ns
                                               - best.ask_quote[1].timestamp_ns))] >>
             ELSE <<>>

\* evaluate, lines 72-86: the quotes afterwards and what is returned
Evaluate(vq, event) ==
    LET quote == [venue |-> event.venue, bid |-> event.bid_price,
                  ask |-> event.ask_price, bid_size |-> event.bid_size,
                  ask_size |-> event.ask_size,
                  timestamp_ns |-> event.timestamp_ns, stale |-> FALSE]
        marked == MarkStale(SetQuote(DictGet(vq, event.symbol, <<>>), quote),
                            event.timestamp_ns)
    IN  [venue_quotes |-> DictSet(vq, event.symbol, marked),
         signal |-> ScanForArb(marked, event.symbol)]

(***************************************************************************)
(* The market-data path of the pipeline loop                               *)
(***************************************************************************)

\* top-of-book quotes of the feed, each with bid < ask: price and size of
\* the bid, price and size of the ask
FeedQuotes ==
    { [bid_price |-> 10005, bid_size |-> 2000, ask_price |-> 10006, ask_size |-> 500],
      [bid_price |-> 9999, bid_size |-> 300, ask_price |-> 10002, ask_size |-> 700],
      [bid_price |-> 10004, bid_size |-> 400, ask_price |-> 10005, ask_size |-> 700],
      [bid_price |-> 9998, bid_size |-> 900, ask_price |-> 10001, ask_size |-> 5000] }

FeedVenues == {"V1", "V2"}

\* timestamp of the first event, and the gaps between consecutive events
FirstEventNs == 1000000
EventGapsNs == {1234, 50000, 600000}

MakeEvent(type, venue, q, ts) ==
    [event_type |-> type, symbol |-> "X", venue |-> venue,
     timestamp_ns |-> ts,
     bid_price |-> q.bid_price, bid_size |-> q.bid_size,
     ask_price |-> q.ask_price, ask_size |-> q.ask_size,
     trade_price |-> IF type = "MARKET_DATA_TRADE" THEN q.bid_price ELSE 0,
     trade_size |-> IF type = "MARKET_DATA_TRADE" THEN 100 ELSE 0]

\* the events that may follow the last one applied
NextEvents ==
    LET stamps == IF md_event = <<>> THEN {FirstEventNs}
                  ELSE {md_event[1].timestamp_ns + gap : gap \in EventGapsNs}
    IN  { MakeEvent("MARKET_DATA_L1", venue, q, ts) :
              venue \in FeedVenues, q \in FeedQuotes, ts \in stamps }
        \cup
        { MakeEvent("MARKET_DATA_TRADE", "V1", q, ts) :
              q \in FeedQuotes, ts \in stamps }

\* HFTOrchestrator.__init__ registers the symbols (lines 104-105)
MarketVarsInit ==
    /\ books = RegisterSymbol(EmptyDict, "X")
    /\ venue_quotes = EmptyDict
    /\ arb_ret = <<>>
    /\ md_event = <<>>

\* _pipeline_loop, lines 190-201: the event goes to the book replicas and
\* to the arbitrage detector
MarketEvent ==
    /\ books["X"][1].update_count < MaxMarketEvents
    /\ \E event \in NextEvents :
         LET res == Evaluate(venue_quotes, event)
         IN  /\ books' = ApplyEvent(books, event)
             /\ venue_quotes' = res.venue_quotes
             /\ arb_ret' = res.signal
             /\ md_event' = <<event>>

(***************************************************************************)
(* HFTOrchestrator.start / stop                                            *)
(* orch.task holds, for the feed task and the three loop tasks, whether    *)
(* the task was never created ("none"), is alive, or is done; orch.created *)
(* counts the create_task calls for each.  start() and stop() are called   *)
(* one after the other from the server's startup and shutdown handlers.    *)
(* start() never suspends.  stop() suspends in each await of a task that   *)
(* is still alive; awaiting a task that is done returns at once.  A task   *)
(* is cancelled where it is suspended: in the sleep between two iterations *)
(* or in the sleep of ExchangeSimulator.submit_order; its loop leaves on   *)
(* CancelledError (lines 219-220, 245-246).                                *)
(***************************************************************************)

\* the tasks in the order stop() cancels them (feed_handler.py line 114,
\* orchestrator.py line 167)
StopOrder == <<"feed", "pipeline", "market_making", "monitoring">>

\* HFTOrchestrator.__init__, lines 133-136, and
\* MarketDataFeedHandler.__init__
NewOrchestrator ==
    [running |-> FALSE, feed_running |-> FALSE,
     task |-> [n \in Range(StopOrder) |-> "none"],
     created |-> [n \in Range(StopOrder) |-> 0]]

CreateTask(o, n) ==
    [o EXCEPT !.task[n] = "alive", !.created[n] = @ + 1]

\* MarketDataFeedHandler.start, lines 105-110
FeedStart(o) ==
    IF o.feed_running THEN o
    ELSE CreateTask([o EXCEPT !.feed_running = TRUE], "feed")

\* a start() without the check of lines 149-150
Start_Unguarded(o) ==
    CreateTask(CreateTask(CreateTask(
        FeedStart([o EXCEPT !.running = TRUE, !.feed_running = FALSE]),
        "pipeline"), "market_making"), "monitoring")

\* HFTOrchestrator.start, lines 148-161
Start(o) ==
    IF o.running THEN o
    ELSE CreateTask(CreateTask(CreateTask(
             FeedStart([o EXCEPT !.running = TRUE]),
             "pipeline"), "market_making"), "monitoring")

\* stop(), line 164, and MarketDataFeedHandler.stop, line 113
StopFlags(o) == [o EXCEPT !.running = FALSE, !.feed_running = FALSE]

\* the first task from position i of StopOrder on that is alive, the one
\* stop() cancels and awaits next; "idle" when stop() runs to its end
RECURSIVE NextAlive(_, _)
NextAlive(o, i) ==
    IF i > Len(StopOrder) THEN "idle"
    ELSE IF o.task[StopOrder[i]] = "alive" THEN StopOrder[i]
         ELSE NextAlive(o, i + 1)

StopIndex(n) == CHOOSE i \in DOMAIN StopOrder : StopOrder[i] = n

\* task.cancel() on a suspended task: the task ends where it is
Cancel(o, n) == IF n = "idle" THEN o ELSE [o EXCEPT !.task[n] = "done"]

LifeVarsInit ==
    /\ orch = NewOrchestrator
    /\ life_pc = "idle"
    /\ life_call = [op |-> "init", raised |-> FALSE]
    /\ life_log = <<>>

\* start(), lines 148-161; the loops of a new set of tasks start afresh
OrchStart ==
    /\ life_pc = "idle"
    /\ running = "none"
    /\ Len(life_log) < MaxLifeCalls
    /\ orch' = Start(orch)
    /\ tasks' = IF orch.running THEN tasks ELSE [t \in Tasks |-> IdleTask]
    /\ life_call' = [op |-> "start", raised |-> FALSE]
    /\ life_log' = Append(life_log, "start")
    /\ UNCHANGED <<life_pc, oms, o_call, running, signals_done, order_log>>

\* stop(), lines 163-175, up to its first suspension: the flags are
\* cleared and the first task that is alive is cancelled and awaited;
\* with no task alive the call returns
OrchStopBegin ==
    /\ life_pc = "idle"
    /\ running = "none"
    /\ Len(life_log) < MaxLifeCalls
    /\ LET target == NextAlive(orch, 1)
       IN  /\ orch' = Cancel(StopFlags(orch), target)
           /\ life_pc' = target
           /\ life_call' = IF target = "idle"
                           THEN [op |-> "stop", raised |-> FALSE]
                           ELSE life_call
    /\ life_log' = Append(life_log, "stop")
    /\ UNCHANGED exec_vars

\* stop() resumes when the awaited task has ended (CancelledError is
\* swallowed, lines 170-173), cancels and awaits the next task that is
\* alive, or returns
OrchStopResume ==
    /\ life_pc # "idle"
    /\ running = "none"
    /\ LET target == NextAlive(orch, StopIndex(life_pc) + 1)
       IN  /\ orch' = Cancel(orch, target)
           /\ life_pc' = target
           /\ life_call' = IF target = "idle"
                           THEN [op |-> "stop", raised |-> FALSE]
                           ELSE life_call
    /\ UNCHANGED <<life_log, exec_vars>>

\* a loop task runs only while it is alive
Alive(t) == orch.task[t] = "alive"

\* a loop that wakes from the sleep between two iterations takes up new
\* signals only if _running still holds (the while tests of lines 182 and
\* 232); a signal already being executed is carried on with either way
LoopGoesOn(t) == Alive(t) /\ orch.running

(***************************************************************************)
(* MarketMakingEngine                                                      *)
(* Prices are whole cents, as everywhere in the order books.  The floats   *)
(* generate_quotes computes with are exact fractions here, and round(x, 2) *)
(* is rounding to the nearest cent, a tie going to the even cent.  The     *)
(* cost basis and the P&L of MMPosition are left out, and so are the       *)
(* counters and the metadata of the signals.                               *)
(***************************************************************************)

\* sum and product of two fractions, reduced before the terms are combined
RatSum(a, b) ==
    LET l == (a.d \div GCD(a.d, b.d)) * b.d
    IN  Rat(a.n * (l \div a.d) + b.n * (l \div b.d), l)

RatMul(a, b) ==
    LET g1 == GCD(Abs(a.n), b.d)
        g2 == GCD(Abs(b.n), a.d)
    IN  Rat((a.n \div g1) * (b.n \div g2), (a.d \div g2) * (b.d \div g1))

RatNeg(a) == [n |-> -a.n, d |-> a.d]
RatLess(a, b) == a.n * b.d < b.n * a.d
RatMin(a, b) == IF RatLess(b, a) THEN b ELSE a

\* round() to a whole number, ties to even
RoundHalfEven(x) ==
    LET fl == x.n \div x.d
        rem == x.n - fl * x.d
    IN  IF 2 * rem < x.d THEN fl
        ELSE IF 2 * rem > x.d THEN fl + 1
             ELSE IF fl % 2 = 0 THEN fl ELSE fl + 1

\* OrderBook.mid_price, lines 118-124, in cents: <<mid>>, or <<>> for None
MidPrice(book) ==
    IF Populated(book)
    THEN <<Rat(BestBid(book) + BestAsk(book), 2)>>
    ELSE IF book.bid_prices # <<>> THEN <<RatInt(BestBid(book))>>
         ELSE IF book.ask_prices # <<>> THEN <<RatInt(BestAsk(book))>>
              ELSE <<>>

\* OrderBook.spread, lines 126-131, in cents
BookSpread(book) ==
    IF Populated(book) THEN BestAsk(book) - BestBid(book) ELSE 0

\* OrderBook.spread_bps, lines 133-138
BookSpreadBps(book) ==
    LET mid == MidPrice(book)
    IN  IF mid # <<>> /\ mid[1].n > 0
        THEN RatMul(Rat(BookSpread(book) * mid[1].d, mid[1].n), RatInt(10000))
        ELSE RatInt(0)

\* lines 136-138: spread_pct
SpreadPct(book) ==
    RatSum(Rat(DefaultSpreadBps, 10000),
           RatMin(RatMul(BookSpreadBps(book), Rat(1, 100)), Rat(2, 1000)))

\* lines 140-144: inventory_skew, a price offset in dollars
InventorySkew(book, net_position) ==
    IF net_position # 0
    THEN RatMul(RatMul(Rat(net_position, MaxPositionShares),
                       Rat(InventorySkewTenths, 10)),
                SpreadPct(book))
    ELSE RatInt(0)

\* a quote pair that is left as the rounding gives it
WidenAsk_Never(bid_price, ask_price) == ask_price

\* lines 151-152
WidenAsk(bid_price, ask_price) ==
    IF ask_price <= bid_price THEN bid_price + 1 ELSE ask_price

\* lines 154-160
QuoteQty(net_position) ==
    IF 10 * Abs(net_position) > 8 * MaxPositionShares
    THEN QuoteSizeShares \div 2
    ELSE QuoteSizeShares

\* generate_quotes, lines 123-211: the signals returned
GenerateQuotes(symbol, book, net_position) ==
    LET mid == MidPrice(book)
    IN  IF mid = <<>> \/ mid[1].n <= 0 THEN <<>>
        ELSE LET half_spread == RatMul(RatMul(mid[1], SpreadPct(book)), Rat(1, 2))
                 skew_cents == RatMul(InventorySkew(book, net_position),
                                      RatInt(100))
                 bid_price == RoundHalfEven(
                     RatSum(RatSum(mid[1], RatNeg(half_spread)), skew_cents))
                 ask_rounded == RoundHalfEven(
                     RatSum(RatSum(mid[1], half_spread), skew_cents))
                 ask_price == WidenAsk(bid_price, ask_rounded)
                 qty == QuoteQty(net_position)
             IN  << [strategy_id |-> "MM-CORE", symbol |-> symbol,
                     side |-> "BUY", target_price |-> bid_price,
                     target_qty |-> qty, signal_type |-> "market_make_bid"],
                    [strategy_id |-> "MM-CORE", symbol |-> symbol,
                     side |-> "SELL", target_price |-> ask_price,
                     target_qty |-> qty, signal_type |-> "market_make_ask"] >>

\* the top-of-book quotes the books of the market maker are built from,
\* each with bid < ask; two of them in a row can leave the book locked or
\* crossed
MmQuotes ==
    { [bid_price |-> 21, ask_price |-> 22], [bid_price |-> 18, ask_price |-> 19],
      [bid_price |-> 19, ask_price |-> 21] }

MmFillQtys == {1, QuoteSizeShares}

MmVarsInit ==
    /\ mm_positions = EmptyDict
    /\ mm_ret = <<>>

\* OrderBookManager.apply_event with an L1 event of the feed
MmBookEvent ==
    /\ books["X"][1].update_count < MaxMmEvents
    /\ \E q \in MmQuotes :
         books' = ApplyEvent(books,
                     [event_type |-> "MARKET_DATA_L1", symbol |-> "X",
                      bid_price |-> q.bid_price, bid_size |-> 100,
                      ask_price |-> q.ask_price, ask_size |-> 100])
    /\ UNCHANGED <<venue_quotes, arb_ret, md_event, mm_vars>>

\* on_fill with a fill of either side
MmOnFill ==
    /\ GetMMPosition(mm_positions, "X").trades_count < MaxMmFills
    /\ \E side \in Sides, qty \in MmFillQtys :
         mm_positions' = OnFill(mm_positions,
                                [symbol |-> "X", side |-> side, fill_qty |-> qty])
    /\ UNCHANGED <<mm_ret, market_vars>>

\* generate_quotes on the primary replica of the symbol's book (the
\* market-making loop, lines 233-238, calls it whatever the mid is)
MmGenerateQuotes ==
    /\ LET book == books["X"][1]
           net == GetMMPosition(mm_positions, "X").net_position
       IN  mm_ret' = << [book |-> book, net_position |-> net,
                         signals |-> GenerateQuotes("X", book, net)] >>
    /\ mm_positions' = DictSet(mm_positions, "X", GetMMPosition(mm_positions, "X"))
    /\ UNCHANGED market_vars

(***************************************************************************)
(* route_signal under any ExecutionConfig                                  *)
(***************************************************************************)

\* venue lists an ExecutionConfig may hold: none, only a venue without a
\* VENUE_CONFIGS entry, one known venue, a mix, and the default
VenueLists ==
    { <<>>, <<"DARK">>, <<"IEX">>, <<"DARK", "BATS">>, DefaultVenues }

RouterQtys ==
    {1, MaxSliceSize, MaxSliceSize + 1, 3 * MaxSliceSize, 6 * MaxSliceSize}

RouterSignals ==
    [symbol : Symbols, side : {"BUY"}, target_price : {100},
     target_qty : RouterQtys]

RouterVarsInit ==
    /\ config_venues = DefaultVenues
    /\ route_ret = <<>>

\* one call of route_signal; the parent id stands for PARENT-<clock seq>
RouterRoute ==
    /\ signals_done < MaxRoutes
    /\ \E signal \in RouterSignals, profile \in WeightProfiles :
         LET routed == RouteSignal(oms, signal, signals_done + 1,
                                   config_venues, profile)
         IN  /\ oms' = routed.oms
             /\ route_ret' = << [signal |-> signal, profile |-> profile,
                                 orders |-> routed.orders,
                                 raised |-> routed.raised,
                                 orders_before |-> oms.total_orders] >>
             /\ o_call' = [op |-> "route_signal", signal |-> signal]
    /\ signals_done' = signals_done + 1
    /\ UNCHANGED <<tasks, running, order_log, config_venues>>

(***************************************************************************)
(* OrderBookManager under any event and failover                           *)
(* _primary holds the 0-based index of the replica that reads hit.         *)
(***************************************************************************)

\* register_symbol, line 212: the primary index of a new symbol
RegisterPrimary(bks, prim, symbol) ==
    IF symbol \in DOMAIN bks THEN prim ELSE DictSet(prim, symbol, 0)

\* get_book, lines 226-230: <<book>>, or <<>> for None
GetBook(bks, prim, symbol) ==
    IF symbol \in DOMAIN bks
    THEN <<bks[symbol][DictGet(prim, symbol, 0) + 1]>>
    ELSE <<>>

\* failover, lines 232-236
Failover(bks, prim, symbol) ==
    IF symbol \in DOMAIN bks /\ Len(bks[symbol]) > 1
    THEN DictSet(prim, symbol,
                 (DictGet(prim, symbol, 0) + 1) % Len(bks[symbol]))
    ELSE prim

\* the events a caller may apply: prices and sizes of either sign, a size
\* of 0, and a trade
BookBidPrices == {-1, 20, 21}
BookBidSizes == {-1, 0, 5, 7}
BookAskPrices == {-1, 22}
BookAskSizes == {0, 5}
BookEvents ==
    { [event_type |-> "MARKET_DATA_L1", symbol |-> "X",
       bid_price |-> bp, bid_size |-> bs, ask_price |-> ap, ask_size |-> as,
       trade_price |-> 0, trade_size |-> 0] :
          bp \in BookBidPrices, bs \in BookBidSizes,
          ap \in BookAskPrices, as \in BookAskSizes }
    \cup
    { [event_type |-> "MARKET_DATA_TRADE", symbol |-> "X",
       bid_price |-> 20, bid_size |-> 5, ask_price |-> 22, ask_size |-> 5,
       trade_price |-> 21, trade_size |-> 3] }

\* HFTOrchestrator.__init__ registers the symbols (lines 104-105)
BookVarsInit ==
    /\ primary = RegisterPrimary(EmptyDict, EmptyDict, "X")
    /\ parse_errors = 0
    /\ book_call = [op |-> "init"]

\* OrderBookManager.apply_event
BookApplyEvent ==
    /\ books["X"][1].update_count < MaxBookEvents
    /\ \E event \in BookEvents :
         /\ books' = ApplyEvent(books, event)
         /\ primary' = RegisterPrimary(books, primary, event.symbol)
         /\ md_event' = <<event>>
         /\ book_call' = [op |-> "apply_event",
                           bid_known |-> event.bid_price \in
                               DOMAIN books[event.symbol][1].bid_levels,
                           ask_known |-> event.ask_price \in
                               DOMAIN books[event.symbol][1].ask_levels]
    /\ UNCHANGED <<venue_quotes, arb_ret, parse_errors>>

\* OrderBookManager.failover
BookFailover ==
    /\ primary' = Failover(books, primary, "X")
    /\ book_call' = [op |-> "failover"]
    /\ UNCHANGED <<market_vars, parse_errors>>

(***************************************************************************)
(* NanosecondClock                                                         *)
(* time.perf_counter_ns() is an input of now(): the reading a call gets is *)
(* any value of the span, above or below the reading of the call before.   *)
(***************************************************************************)

\* __init__, lines 47-50: time.time_ns() and time.perf_counter_ns() at
\* construction
BaseNs == 1000
BasePerf == 10

PerfReadings == BasePerf..(BasePerf + MaxPerfAdvance)

\* now, lines 52-55, with the counter reading it gets
ClockNow(seq, reading) ==
    LET elapsed == reading - BasePerf
    IN  [epoch_ns |-> BaseNs + elapsed, seq |-> seq + 1]

ClockVarsInit ==
    /\ clock_seq = 0
    /\ clock_log = <<>>

\* a caller reads the clock
ClockCallNow ==
    /\ Len(clock_log) < MaxClockCalls
    /\ \E reading \in PerfReadings :
         LET ts == ClockNow(clock_seq, reading)
         IN  /\ clock_seq' = ts.seq
             /\ clock_log' = Append(clock_log, ts)

(***************************************************************************)
(* Specifications                                                          *)
(***************************************************************************)

\* route_signal on a router built with any of the venue lists
InitRouter ==
    /\ QueueInit /\ RiskVarsInit /\ ExecVarsInit /\ MarketVarsInit
    /\ LifeVarsInit /\ MmVarsInit /\ BookVarsInit /\ ClockVarsInit
    /\ config_venues \in VenueLists
    /\ route_ret = <<>>
NextRouter ==
    RouterRoute /\ UNCHANGED <<queue_vars, risk_vars, market_vars, life_vars, mm_vars, book_vars, clock_vars>>
SpecRouter == InitRouter /\ [][NextRouter]_vars

\* the order books and the arbitrage detector under market-data events
InitMarket ==
    /\ QueueInit /\ RiskVarsInit /\ ExecVarsInit
    /\ MarketVarsInit /\ RouterVarsInit /\ LifeVarsInit /\ MmVarsInit /\ BookVarsInit /\ ClockVarsInit
NextMarket ==
    MarketEvent /\ UNCHANGED <<queue_vars, risk_vars, exec_vars, router_vars, life_vars, mm_vars, book_vars, clock_vars>>
SpecMarket == InitMarket /\ [][NextMarket]_vars

\* the position tracker under arbitrary fills
InitTracker ==
    /\ QueueInit /\ RiskVarsInit /\ ExecVarsInit
    /\ MarketVarsInit /\ RouterVarsInit /\ LifeVarsInit /\ MmVarsInit /\ BookVarsInit /\ ClockVarsInit
NextTracker == TrackerApplyFill /\ UNCHANGED <<queue_vars, exec_vars, market_vars, router_vars, life_vars, mm_vars, book_vars, clock_vars>>
SpecTracker == InitTracker /\ [][NextTracker]_vars

InitQueue ==
    /\ QueueInit /\ RiskVarsInit /\ ExecVarsInit
    /\ MarketVarsInit /\ RouterVarsInit /\ LifeVarsInit /\ MmVarsInit /\ BookVarsInit /\ ClockVarsInit
NextQueue ==
    \/ (ProducerPublish /\ UNCHANGED <<risk_vars, exec_vars, market_vars, router_vars, life_vars, mm_vars, book_vars, clock_vars>>)
    \/ (ConsumerBatch /\ UNCHANGED <<risk_vars, exec_vars, market_vars, router_vars, life_vars, mm_vars, book_vars, clock_vars>>)
    \/ (QueueResetStats /\ UNCHANGED <<risk_vars, exec_vars, market_vars, router_vars, life_vars, mm_vars, book_vars, clock_vars>>)
SpecQueue == InitQueue /\ [][NextQueue]_vars

\* the same queue when reset_stats is never called
NextQueueNoReset ==
    \/ (ProducerPublish /\ UNCHANGED <<risk_vars, exec_vars, market_vars, router_vars, life_vars, mm_vars, book_vars, clock_vars>>)
    \/ (ConsumerBatch /\ UNCHANGED <<risk_vars, exec_vars, market_vars, router_vars, life_vars, mm_vars, book_vars, clock_vars>>)
SpecQueueNoReset == InitQueue /\ [][NextQueueNoReset]_vars

\* the risk gate under orders and the passing of time
InitRisk ==
    /\ QueueInit
    /\ ExecVarsInit
    /\ MarketVarsInit
    /\ RouterVarsInit
    /\ LifeVarsInit /\ MmVarsInit /\ BookVarsInit /\ ClockVarsInit
    /\ risk = RiskInit
    /\ positions \in StartPositions
    /\ tracker_fills = IF positions = EmptyDict THEN <<>> ELSE <<StartFill>>
    /\ now = 0
    /\ approved_log = <<>>
    /\ r_call = [op |-> "init"]
    /\ r_ret = [approved |-> FALSE, reason |-> <<>>]
NextRisk ==
    \/ (RiskCheckOrder(GateOrders) /\ UNCHANGED <<queue_vars, exec_vars, market_vars, router_vars, life_vars, mm_vars, book_vars, clock_vars>>)
    \/ (Tick /\ UNCHANGED <<queue_vars, exec_vars, market_vars, router_vars, life_vars, mm_vars, book_vars, clock_vars>>)
SpecRisk == InitRisk /\ [][NextRisk]_vars

\* the risk gate under P&L updates, orders and daily resets
InitBreaker ==
    /\ QueueInit /\ RiskVarsInit /\ ExecVarsInit
    /\ MarketVarsInit /\ RouterVarsInit /\ LifeVarsInit /\ MmVarsInit /\ BookVarsInit /\ ClockVarsInit
NextBreaker ==
    \/ (RiskCheckOrder(BreakerOrders) /\ UNCHANGED <<queue_vars, exec_vars, market_vars, router_vars, life_vars, mm_vars, book_vars, clock_vars>>)
    \/ (RiskUpdateDailyPnl /\ UNCHANGED <<queue_vars, exec_vars, market_vars, router_vars, life_vars, mm_vars, book_vars, clock_vars>>)
    \/ (RiskResetDaily /\ UNCHANGED <<queue_vars, exec_vars, market_vars, router_vars, life_vars, mm_vars, book_vars, clock_vars>>)
SpecBreaker == InitBreaker /\ [][NextBreaker]_vars

\* the execution path run by the two loops, with the clock
InitExec ==
    /\ QueueInit /\ RiskVarsInit /\ ExecVarsInit
    /\ MarketVarsInit /\ RouterVarsInit
    /\ orch = Start(NewOrchestrator)
    /\ life_pc = "idle"
    /\ life_call = [op |-> "start", raised |-> FALSE]
    /\ life_log = <<"start">>
    /\ MmVarsInit /\ BookVarsInit /\ ClockVarsInit
NextExec ==
    \/ \E t \in Tasks : ExecRoute(t) /\ UNCHANGED <<queue_vars, market_vars, router_vars, life_vars, mm_vars, book_vars, clock_vars>>
    \/ \E t \in Tasks : ExecCheck(t) /\ UNCHANGED <<queue_vars, market_vars, router_vars, life_vars, mm_vars, book_vars, clock_vars>>
    \/ \E t \in Tasks : ExecSubmit(t) /\ UNCHANGED <<queue_vars, market_vars, router_vars, life_vars, book_vars, clock_vars>>
    \/ (Tick /\ UNCHANGED <<queue_vars, exec_vars, market_vars, router_vars, life_vars, mm_vars, book_vars, clock_vars>>)
SpecExec == InitExec /\ [][NextExec]_vars

\* some step of the execution path or of the clock can be taken
ExecCanRun ==
    \/ \E t \in Tasks :
          \/ running = "none" /\ tasks[t].pc = "idle" /\ signals_done < MaxSignals
          \/ running = t /\ tasks[t].pc = "check"
          \/ running = "none" /\ tasks[t].pc = "submit"
    \/ now < MaxTime

\* weak fairness of NextExec, with its enabling condition written out: the
\* event loop runs a task that can run
ExecFairness == []<>(~ExecCanRun) \/ []<><<NextExec>>_vars

\* the steps of the clock and of the event loop taking up a signal
ExecTickStep ==
    Tick /\ UNCHANGED <<queue_vars, exec_vars, market_vars, router_vars, life_vars, mm_vars, book_vars, clock_vars>>
ExecRouteStep ==
    \E t \in Tasks : ExecRoute(t) /\ UNCHANGED <<queue_vars, market_vars, router_vars, life_vars, mm_vars, book_vars, clock_vars>>

\* the same under fair scheduling: time passes, the event loop takes up a
\* waiting signal, and a task that can run is run
SpecExecFair ==
    /\ SpecExec
    /\ WF_vars(ExecTickStep)
    /\ WF_vars(ExecRouteStep)
    /\ ExecFairness

\* the orchestrator under start(), stop() and the execution path of its
\* loop tasks
InitLife ==
    /\ QueueInit /\ RiskVarsInit /\ ExecVarsInit
    /\ MarketVarsInit /\ RouterVarsInit /\ LifeVarsInit /\ MmVarsInit /\ BookVarsInit /\ ClockVarsInit
NextLife ==
    \/ (OrchStart /\ UNCHANGED <<queue_vars, risk_vars, market_vars, router_vars, mm_vars, book_vars, clock_vars>>)
    \/ (OrchStopBegin /\ UNCHANGED <<queue_vars, risk_vars, market_vars, router_vars, mm_vars, book_vars, clock_vars>>)
    \/ (OrchStopResume /\ UNCHANGED <<queue_vars, risk_vars, market_vars, router_vars, mm_vars, book_vars, clock_vars>>)
    \/ \E t \in Tasks : LoopGoesOn(t) /\ ExecRoute(t)
                          /\ UNCHANGED <<queue_vars, market_vars, router_vars, life_vars, mm_vars, book_vars, clock_vars>>
    \/ \E t \in Tasks : Alive(t) /\ ExecCheck(t)
                          /\ UNCHANGED <<queue_vars, market_vars, router_vars, life_vars, mm_vars, book_vars, clock_vars>>
    \/ \E t \in Tasks : Alive(t) /\ ExecSubmit(t)
                          /\ UNCHANGED <<queue_vars, market_vars, router_vars, life_vars, book_vars, clock_vars>>
SpecLife == InitLife /\ [][NextLife]_vars

\* the market maker under book updates, fills and quote refreshes
InitQuotes ==
    /\ QueueInit /\ RiskVarsInit /\ ExecVarsInit
    /\ MarketVarsInit /\ RouterVarsInit /\ LifeVarsInit /\ MmVarsInit /\ BookVarsInit /\ ClockVarsInit
NextQuotes ==
    \/ (MmBookEvent /\ UNCHANGED <<queue_vars, risk_vars, exec_vars, router_vars, life_vars, book_vars, clock_vars>>)
    \/ (MmOnFill /\ UNCHANGED <<queue_vars, risk_vars, exec_vars, router_vars, life_vars, book_vars, clock_vars>>)
    \/ (MmGenerateQuotes /\ UNCHANGED <<queue_vars, risk_vars, exec_vars, router_vars, life_vars, book_vars, clock_vars>>)
SpecQuotes == InitQuotes /\ [][NextQuotes]_vars

\* the OMS under arbitrary calls of its public methods
InitOMS ==
    /\ QueueInit /\ RiskVarsInit /\ ExecVarsInit
    /\ MarketVarsInit /\ RouterVarsInit /\ LifeVarsInit /\ MmVarsInit /\ BookVarsInit /\ ClockVarsInit
NextOMS ==
    \/ (OmsCreateOrder /\ UNCHANGED <<queue_vars, risk_vars, market_vars, router_vars, life_vars, mm_vars, book_vars, clock_vars>>)
    \/ (OmsUpdateStatus /\ UNCHANGED <<queue_vars, risk_vars, market_vars, router_vars, life_vars, mm_vars, book_vars, clock_vars>>)
    \/ (OmsApplyFill /\ UNCHANGED <<queue_vars, risk_vars, market_vars, router_vars, life_vars, mm_vars, book_vars, clock_vars>>)
SpecOMS == InitOMS /\ [][NextOMS]_vars

\* the order-book manager under any event and failover
InitBook ==
    /\ QueueInit /\ RiskVarsInit /\ ExecVarsInit
    /\ MarketVarsInit /\ RouterVarsInit /\ LifeVarsInit /\ MmVarsInit /\ BookVarsInit /\ ClockVarsInit
NextBook ==
    \/ (BookApplyEvent /\ UNCHANGED <<queue_vars, risk_vars, exec_vars, router_vars, life_vars, mm_vars, clock_vars>>)
    \/ (BookFailover /\ UNCHANGED <<queue_vars, risk_vars, exec_vars, router_vars, life_vars, mm_vars, clock_vars>>)
SpecBook == InitBook /\ [][NextBook]_vars

\* the clock under now() calls
InitClock ==
    /\ QueueInit /\ RiskVarsInit /\ ExecVarsInit
    /\ MarketVarsInit /\ RouterVarsInit /\ LifeVarsInit /\ MmVarsInit /\ BookVarsInit /\ ClockVarsInit
NextClock ==
    ClockCallNow /\ UNCHANGED <<queue_vars, risk_vars, exec_vars, market_vars, router_vars, life_vars, mm_vars, book_vars>>
SpecClock == InitClock /\ [][NextClock]_vars

(***************************************************************************)
(* Properties of the event queue                                           *)
(***************************************************************************)

\* published events not yet handed to the consumer
Unconsumed == {e \in 1..(next_event - 1) : e \notin Range(delivered)}

StrictlyIncreasing(s) == \A i \in 1..(Len(s) - 1) : s[i] < s[i + 1]

\* the queue is within capacity and holds the most recent unconsumed events
\* in publish order
QueueHoldsNewest ==
    /\ Len(buffer) <= Capacity
    /\ StrictlyIncreasing(buffer)
    /\ Range(buffer) \subseteq Unconsumed
    /\ \A e \in Unconsumed \ Range(buffer) : \A b \in Range(buffer) : e < b

\* a publish step drops the oldest entry and counts one overflow exactly
\* when the queue was full, and drops nothing otherwise
PublishStepDropsOldest ==
    q_call'.op = "publish" =>
        IF Len(buffer) >= Capacity
        THEN /\ buffer' = Append(Tail(buffer), q_call'.ev)
             /\ overflow_count' = overflow_count + 1
        ELSE /\ buffer' = Append(buffer, q_call'.ev)
             /\ overflow_count' = overflow_count

\* C1: publish on a full queue removes the oldest queued event, appends the
\* new one and adds exactly 1 to overflow_count; publish on a non-full queue
\* drops nothing; so the queue never holds more than Capacity events and
\* always holds the most recent unconsumed published events in publish order.
C1_DropOldest == [][PublishStepDropsOldest]_vars /\ []QueueHoldsNewest

\* C1 witness: Capacity+1 events were published without consuming, then a
\* batch of Capacity returned E2..E(Capacity+1) with overflow_count = 1.
C1_Witness ==
    /\ q_call.op = "consume_batch"
    /\ q_ret = [i \in 1..Capacity |-> i + 1]
    /\ overflow_count = 1
    /\ buffer = <<>>

\* a consume_batch(n) step hands over the first min(n, depth) queued events,
\* in queue order, and removes exactly those
ConsumeStepTakesPrefix ==
    q_call'.op = "consume_batch" =>
        LET k == Min(q_call'.n, Len(buffer))
        IN  /\ Len(q_ret') = k
            /\ q_ret' = SubSeq(buffer, 1, k)
            /\ buffer' = SubSeq(buffer, k + 1, Len(buffer))
            /\ delivered' = delivered \o q_ret'

\* events come out in publish order, none twice, none both out and queued
DeliveredOnceInOrder ==
    /\ StrictlyIncreasing(delivered)
    /\ Range(delivered) \cap Range(buffer) = {}
    /\ Range(delivered) \subseteq 1..(next_event - 1)

\* C2: across any interleaving of publish and consume_batch, consume_batch(n)
\* removes and returns min(n, depth) events, consumed events come out in
\* publish order, and no published event is returned more than once.
C2_FifoExactlyOnce == [][ConsumeStepTakesPrefix]_vars /\ []DeliveredOnceInOrder

\* C2 witness: two batches were taken around an overflow; the second one was
\* cut short by the depth of the queue.
C2_Witness ==
    /\ q_call.op = "consume_batch"
    /\ Len(q_ret) >= 1
    /\ Len(q_ret) < q_call.n
    /\ Len(delivered) > Len(q_ret)
    /\ Cardinality(Unconsumed) > 0

(***************************************************************************)
(* Properties of the risk gate                                             *)
(***************************************************************************)

\* the step is a check_order call; its order is r_call'.order
CheckStep ==
    r_call'.op = "check_order" /\ risk'.checks_run = risk.checks_run + 1

\* the step is an update_daily_pnl call
UpdateStep == r_call'.op = "update_daily_pnl" /\ risk'.daily_pnl # risk.daily_pnl

BreakerReason == <<"CIRCUIT_BREAKER_ACTIVE">>

C5_BreakerRejectsUntilReset ==
    [][ /\ (CheckStep /\ risk.circuit_breaker_active) =>
              /\ ~r_ret'.approved
              /\ r_ret'.reason = BreakerReason
              /\ risk'.circuit_breaker_active
        /\ (risk.circuit_breaker_active /\ r_call'.op # "reset_daily") =>
              risk'.circuit_breaker_active
        /\ r_call'.op = "reset_daily" => ~risk'.circuit_breaker_active
        /\ (CheckStep /\ ~risk.circuit_breaker_active) =>
              /\ "CIRCUIT_BREAKER_ACTIVE" \notin Range(r_ret'.reason)
              /\ r_ret'.approved <=> r_ret'.reason = <<"ALL_CHECKS_PASSED">> ]_vars

\* C5 witness: an order rejected by the active breaker was approved after
\* reset_daily (the rejection counters survive the reset).
C5_Witness ==
    /\ r_call.op = "check_order"
    /\ r_ret.approved
    /\ ~risk.circuit_breaker_active
    /\ DictGet(risk.rejection_reasons, "CIRCUIT_BREAKER_ACTIVE", 0) >= 1

\* approvals logged at or after time t
ApprovalsSince(t) == {i \in DOMAIN approved_log : approved_log[i].t >= t}

RECURSIVE SumLogged(_)
SumLogged(I) ==
    IF I = {} THEN 0
    ELSE LET i == CHOOSE x \in I : TRUE
         IN  approved_log[i].n + SumLogged(I \ {i})

SignedQty(o) == IF o.side = "BUY" THEN o.quantity ELSE -o.quantity

\* C6 as stated: an approved order met every check condition when it was
\* checked, the daily P&L being within max_daily_loss on either side and the
\* order_id never approved before.
C6_Original ==
    [][ (CheckStep /\ r_ret'.approved) =>
          LET o == r_call'.order
          IN  /\ ~risk.circuit_breaker_active
              /\ o.symbol \in DOMAIN risk.last_prices =>
                    ~FatFingerExceeds(o.price, risk.last_prices[o.symbol])
              /\ Abs(GetPositionQty(positions, o.symbol) + SignedQty(o))
                    <= PositionLimitPerSymbol
              /\ Cardinality(ApprovalsSince(now - Second)) < MaxOrdersPerSecond
              /\ Notional(o) <= MaxOrderValue
              /\ SumLogged(ApprovalsSince(now - Second)) + Notional(o)
                    <= MaxNotionalPerSecond
              /\ Abs(risk.daily_pnl) <= MaxDailyLoss
              /\ \A i \in DOMAIN approved_log :
                    approved_log[i].order_id # o.order_id ]_vars

\* every window of 1.0 s holds at most max_orders_per_second approvals
WindowBound ==
    \A a \in 0..MaxTime :
        Cardinality({i \in DOMAIN approved_log :
                        a <= approved_log[i].t /\ approved_log[i].t <= a + Second})
            <= MaxOrdersPerSecond

\* C7: at most max_orders_per_second orders are approved in any 1.0 s
\* window; a check made when that many approvals lie within the last 1.0 s
\* is rejected with a reason that includes ORDER_RATE_LIMIT; a rejected
\* order adds nothing to the window; and once more than 1.0 s has passed
\* since those approvals the rate check passes again, so that an order
\* failing no other check is approved.
C7_RateLimit ==
    /\ []WindowBound
    /\ [][ (CheckStep /\ ~risk.circuit_breaker_active) =>
             LET recent == Cardinality(ApprovalsSince(now - Second))
                 failed == Range(r_ret'.reason)
             IN  /\ recent >= MaxOrdersPerSecond =>
                       (~r_ret'.approved /\ "ORDER_RATE_LIMIT" \in failed)
                 /\ recent < MaxOrdersPerSecond => "ORDER_RATE_LIMIT" \notin failed
                 /\ ~r_ret'.approved =>
                       /\ approved_log' = approved_log
                       /\ Len(risk'.order_timestamps) <= Len(risk.order_timestamps)
                 /\ r_ret'.approved <=> failed = {"ALL_CHECKS_PASSED"}
                 /\ r_ret'.approved =>
                       risk'.order_timestamps[Len(risk'.order_timestamps)] = now ]_vars

\* C7 witness: an order was approved, the next was refused for the rate, and
\* after more than 1.0 s another order was approved.
C7_Witness ==
    /\ r_call.op = "check_order"
    /\ r_ret.approved
    /\ Len(approved_log) = MaxOrdersPerSecond + 1
    /\ approved_log[Len(approved_log)].t > approved_log[1].t + Second
    /\ DictGet(risk.rejection_reasons, "ORDER_RATE_LIMIT", 0) >= 1

\* C8: the first order on a symbol seeds the reference price with its own
\* price and passes the fat-finger check; afterwards an order whose price is
\* more than fat_finger_pct percent away from the reference is rejected with
\* a reason that includes FAT_FINGER and leaves the reference unchanged, and
\* an order within the threshold passes the check and, when approved, makes
\* its price the new reference.
C8_FatFinger ==
    [][ (CheckStep /\ ~risk.circuit_breaker_active) =>
          LET o == r_call'.order
              failed == Range(r_ret'.reason)
          IN  IF o.symbol \notin DOMAIN risk.last_prices
              THEN /\ "FAT_FINGER" \notin failed
                   /\ risk'.last_prices[o.symbol] = o.price
              ELSE IF FatFingerExceeds(o.price, risk.last_prices[o.symbol])
              THEN /\ ~r_ret'.approved
                   /\ "FAT_FINGER" \in failed
                   /\ risk'.last_prices = risk.last_prices
              ELSE /\ "FAT_FINGER" \notin failed
                   /\ r_ret'.approved => risk'.last_prices[o.symbol] = o.price ]_vars

\* C8 witness: 100 seeded the reference, 106 was rejected as a fat finger,
\* then 103 was approved and is the reference.
C8_Witness ==
    /\ Len(approved_log) = 2
    /\ approved_log[1].n = 100
    /\ approved_log[2].n = 103
    /\ DictGet(risk.rejection_reasons, "FAT_FINGER", 0) = 1
    /\ r_ret.approved
    /\ risk.last_prices["X"] = 103
    /\ risk.checks_run = 3

(***************************************************************************)
(* Properties of the order management system                               *)
(***************************************************************************)

QtyBalanced(o) ==
    /\ o.filled_qty + o.remaining_qty = o.quantity
    /\ o.status = "REJECTED" => o.remaining_qty = o.quantity

TerminalStatuses == {"FILLED", "CANCELLED", "REJECTED"}

\* the position of a status in PENDING, SENT, ACKED, PARTIALLY_FILLED, final
StatusRank(s) ==
    CASE s = "PENDING" -> 0
      [] s = "SENT" -> 1
      [] s = "ACKED" -> 2
      [] s = "PARTIALLY_FILLED" -> 3
      [] OTHER -> 4

StatusStepMonotonic ==
    \A id \in DOMAIN oms.orders :
        LET old == oms.orders[id].status
            new == oms'.orders[id].status
        IN  /\ old \in TerminalStatuses => new = old
            /\ StatusRank(new) >= StatusRank(old)

\* C10: no update_status or apply_fill call changes the status of an order
\* that is FILLED, CANCELLED or REJECTED, and no call moves an order back
\* to an earlier status.
C10_Original == [][StatusStepMonotonic]_vars

(***************************************************************************)
(* Properties of the execution path                                        *)
(***************************************************************************)

\* what the history holds for an order: the verdict and the gateway's answer
LogOf(id) == DictGet(order_log, id, [risk |-> "none", gateway |-> "none"])

\* the fills the OMS and the position tracker hold for an order
OmsFillsOf(id) == DictGet(oms.fills, id, <<>>)
TrackerFillsOf(id) == SelectSeq(tracker_fills, LAMBDA f : f.order_id = id)

Unfilled(id) ==
    /\ oms.orders[id].filled_qty = 0
    /\ OmsFillsOf(id) = <<>>
    /\ TrackerFillsOf(id) = <<>>

\* C11: an order has fills only if the risk gate approved it and the
\* gateway acknowledged it; an order the risk gate rejected is never handed
\* to the gateway; an order rejected by the gate or by the gateway is in
\* status REJECTED with filled_qty = 0 and no fill in the OMS or the
\* position tracker.
C11_FillsOnlyWhenAcked ==
    \A id \in DOMAIN oms.orders :
        /\ ~Unfilled(id) =>
               LogOf(id).risk = "approved" /\ LogOf(id).gateway = "ACKED"
        /\ LogOf(id).risk = "rejected" => LogOf(id).gateway = "none"
        /\ (LogOf(id).risk = "rejected" \/ LogOf(id).gateway = "REJECTED") =>
               oms.orders[id].status = "REJECTED" /\ Unfilled(id)

\* a risk rejection, a gateway rejection and a filled order side by side
C11_Witness ==
    \E a, b, c \in DOMAIN oms.orders :
        /\ LogOf(a).risk = "rejected"
        /\ LogOf(b).risk = "approved" /\ LogOf(b).gateway = "REJECTED"
        /\ LogOf(c).gateway = "ACKED"
        /\ OmsFillsOf(c) # <<>> /\ TrackerFillsOf(c) # <<>>

(***************************************************************************)
(* Properties of the position tracker                                      *)
(***************************************************************************)

\* the signed sum of the quantities of the fills of a symbol in a history
RECURSIVE SignedFillSum(_, _)
SignedFillSum(fills, symbol) ==
    IF fills = <<>> THEN 0
    ELSE (IF Head(fills).symbol # symbol THEN 0
          ELSE IF Head(fills).side = "BUY" THEN Head(fills).fill_qty
               ELSE -Head(fills).fill_qty)
         + SignedFillSum(Tail(fills), symbol)

\* C12: for every symbol, net_qty is the sum of the BUY fill quantities
\* minus the sum of the SELL fill quantities ever applied for that symbol.
C12_NetIsSignedSum ==
    \A symbol \in {"X", "Y"} :
        GetPositionQty(positions, symbol) = SignedFillSum(tracker_fills, symbol)

\* a short that a larger BUY has flipped to long, after three fills
C12_Witness ==
    /\ Len(tracker_fills) = MaxTrackerFills
    /\ \E k \in 2..Len(tracker_fills) :
         /\ tracker_fills[k].symbol = "X" /\ tracker_fills[k].side = "BUY"
         /\ SignedFillSum(SubSeq(tracker_fills, 1, k - 1), "X") < 0
         /\ SignedFillSum(SubSeq(tracker_fills, 1, k), "X") > 0

\* C13: after every apply_fill each position is one-sided and consistent:
\* long_qty * short_qty = 0 and net_qty = long_qty - short_qty.
C13_OneSided ==
    \A symbol \in DOMAIN positions :
        /\ positions[symbol].long_qty * positions[symbol].short_qty = 0
        /\ positions[symbol].net_qty =
               positions[symbol].long_qty - positions[symbol].short_qty

\* a long position flipped to short by a larger SELL, then closed exactly
\* to zero by a BUY
C13_Witness ==
    /\ Len(tracker_fills) = 3
    /\ SignedFillSum(SubSeq(tracker_fills, 1, 1), "X") > 0
    /\ SignedFillSum(SubSeq(tracker_fills, 1, 2), "X") < 0
    /\ positions["X"].net_qty = 0

\* the tracker after a history of fills, starting empty
RECURSIVE PositionAfter(_)
PositionAfter(fills) ==
    IF fills = <<>> THEN EmptyDict
    ELSE PositionApplyFill(PositionAfter(SubSeq(fills, 1, Len(fills) - 1)),
                           fills[Len(fills)])

\* g is f with the side reversed
IsReverse(f, g) ==
    /\ g.symbol = f.symbol /\ g.fill_price = f.fill_price
    /\ g.fill_qty = f.fill_qty /\ g.side # f.side

\* C14: applying a fill and then the reverse fill (same symbol, price and
\* quantity, opposite side) returns net_qty to its prior value and leaves
\* realized_pnl as it was before the pair.
C14_Original ==
    LET n == Len(tracker_fills)
    IN  (n >= 2 /\ IsReverse(tracker_fills[n - 1], tracker_fills[n])) =>
            LET symbol == tracker_fills[n].symbol
                before == GetOrCreate(PositionAfter(SubSeq(tracker_fills, 1,
                                                           n - 2)), symbol)
            IN  /\ positions[symbol].net_qty = before.net_qty
                /\ positions[symbol].realized_pnl = before.realized_pnl

(***************************************************************************)
(* Properties of the order books and the arbitrage detector                *)
(***************************************************************************)

\* C15: for every symbol and every replica, after any sequence of applied
\* market-data events each having bid < ask, best_bid < best_ask whenever
\* both sides of the book are populated, except on a tick where the cross
\* also produces an arbitrage signal.
C15_Original ==
    \A symbol \in DOMAIN books : \A i \in DOMAIN books[symbol] :
        Populated(books[symbol][i]) =>
            \/ BestBid(books[symbol][i]) < BestAsk(books[symbol][i])
            \/ arb_ret # <<>>

\* the quotes of the symbol of the last event, as evaluate left them
QuotesNow == DictGet(venue_quotes, md_event[1].symbol, <<>>)

\* the quotes among them that are not stale at the last event's timestamp
FreshQuotes ==
    { q \in Range(QuotesNow) :
        md_event[1].timestamp_ns - q.timestamp_ns
            <= ArbStalenessThresholdUs * 1000 }

\* two distinct venues hold the best bid and the best ask of the quote set,
\* the bid above the ask by at least the minimum spread
CrossAmong(quotes) ==
    \E b \in quotes, a \in quotes :
        /\ \A q \in quotes : q.bid <= b.bid /\ a.ask <= q.ask
        /\ b.venue # a.venue
        /\ b.bid > a.ask
        /\ SpreadReaches(b.bid, a.ask)

\* C16: evaluate returns a signal if and only if the quotes that are not
\* stale at the current event's timestamp hold, on two distinct venues, a
\* best bid above the best ask with spread_bps >= min_profit_bps; a quote
\* marked stale never contributes to a signal.
C16_Original ==
    md_event # <<>> =>
        /\ arb_ret # <<>> <=> CrossAmong(FreshQuotes)
        /\ arb_ret # <<>> =>
              \A q \in Range(QuotesNow) :
                  q.venue \in {arb_ret[1].buy_venue, arb_ret[1].sell_venue}
                      => ~q.stale

\* the signal is a BUY at the lowest ask, bought where the lowest ask is
\* quoted and sold where the highest bid is quoted, for the smaller of the
\* two sizes and at most 1000
SignalOfBest(sig, quotes) ==
    \E b \in quotes, a \in quotes :
        /\ \A q \in quotes : q.bid <= b.bid /\ a.ask <= q.ask
        /\ sig.side = "BUY"
        /\ sig.target_price = a.ask
        /\ sig.buy_venue = a.venue
        /\ sig.sell_venue = b.venue
        /\ sig.sell_price = b.bid
        /\ sig.target_qty = Min(Min(b.bid_size, a.ask_size), 1000)

\* the difference of the timestamps of the quotes of the signal's two
\* venues, in nanoseconds
VenueGapNs(sig, quotes) ==
    LET b == CHOOSE q \in quotes : q.venue = sig.sell_venue
        a == CHOOSE q \in quotes : q.venue = sig.buy_venue
    IN  Abs(b.timestamp_ns - a.timestamp_ns)

\* C17 (as stated): a fired signal is a BUY at the lowest ask with
\* buy_venue the venue of the lowest ask, sell_venue the venue of the
\* highest bid, target_qty = min(best_bid_size, best_ask_size, 1000) and
\* latency_advantage_us exactly the timestamp difference / 1000.
C17_Original ==
    arb_ret # <<>> =>
        /\ SignalOfBest(arb_ret[1], Range(QuotesNow))
        /\ arb_ret[1].latency_advantage_us * 10
              = VenueGapNs(arb_ret[1], Range(QuotesNow))

\* C17 (amended): the same signal content, with latency_advantage_us the
\* timestamp difference / 1000 rounded to two decimals (the value in
\* hundredths of a microsecond is within 5 ns of the difference).
C17_SignalContent ==
    arb_ret # <<>> =>
        /\ SignalOfBest(arb_ret[1], Range(QuotesNow))
        /\ Abs(arb_ret[1].latency_advantage_us * 10
                  - VenueGapNs(arb_ret[1], Range(QuotesNow))) <= 5

\* V1 100.05/100.06 at 1000000 ns, then V2 99.99/100.02 at 1050000 ns: the
\* V2 event fires BUY on V2 at 100.02, sell on V1 at 100.05, 50 us
C17_Witness ==
    /\ md_event # <<>>
    /\ md_event[1].venue = "V2" /\ md_event[1].timestamp_ns = 1050000
    /\ md_event[1].bid_price = 9999 /\ md_event[1].ask_price = 10002
    /\ \E q \in Range(QuotesNow) :
          q.venue = "V1" /\ q.bid = 10005 /\ q.ask = 10006
              /\ q.timestamp_ns = 1000000
    /\ arb_ret # <<>>
    /\ arb_ret[1].side = "BUY" /\ arb_ret[1].target_price = 10002
    /\ arb_ret[1].buy_venue = "V2" /\ arb_ret[1].sell_venue = "V1"
    /\ arb_ret[1].sell_price = 10005 /\ arb_ret[1].target_qty = 700
    /\ arb_ret[1].latency_advantage_us = 5000

(***************************************************************************)
(* Properties of route_signal                                              *)
(***************************************************************************)

\* the orders the last route_signal returned, as the OMS holds them
RoutedOrders ==
    [i \in DOMAIN route_ret[1].orders |-> oms.orders[route_ret[1].orders[i]]]

\* the last call took the splitting branch
WasSplit ==
    route_ret # <<>> /\ route_ret[1].signal.target_qty > MaxSliceSize

\* the configured venues that were available to the last call
AvailableVenues == GetVenueWeights(config_venues, route_ret[1].profile)

RECURSIVE SumQuantity(_)
SumQuantity(orders) ==
    IF orders = <<>> THEN 0
    ELSE Head(orders).quantity + SumQuantity(Tail(orders))

\* C18: when route_signal splits a signal with target_qty > max_slice_size,
\* every resulting order has quantity <= max_slice_size, including the slice
\* that receives the final residual.
C18_Original ==
    WasSplit =>
        \A i \in DOMAIN RoutedOrders : RoutedOrders[i].quantity <= MaxSliceSize

\* C19: when route_signal splits a signal and at least one venue is
\* available, the quantities of the resulting orders sum exactly to
\* signal.target_qty and all of them carry the same non-empty
\* parent_order_id.
C19_SplitSumAndParent ==
    (WasSplit /\ AvailableVenues # <<>>) =>
        /\ RoutedOrders # <<>>
        /\ SumQuantity(RoutedOrders) = route_ret[1].signal.target_qty
        /\ \A i \in DOMAIN RoutedOrders :
              /\ RoutedOrders[i].parent_order_id # 0
              /\ RoutedOrders[i].parent_order_id = RoutedOrders[1].parent_order_id

\* a split over the five default venues whose last slice took a residual:
\* 3 * max_slice_size placed as five slices, the last one larger than the
\* first
C19_Witness ==
    /\ WasSplit
    /\ config_venues = DefaultVenues
    /\ route_ret[1].signal.target_qty = 3 * MaxSliceSize
    /\ Len(RoutedOrders) = 5
    /\ RoutedOrders[5].quantity > RoutedOrders[1].quantity
    /\ SumQuantity(RoutedOrders) = 3 * MaxSliceSize
    /\ RoutedOrders[1].parent_order_id # 0

\* C20: if no configured venue is available for a signal (the venue list is
\* empty or no configured venue is known), route_signal drops the signal:
\* it returns no orders, creates no order in the OMS and does not raise.
C20_Original ==
    (route_ret # <<>> /\ AvailableVenues = <<>>) =>
        /\ route_ret[1].orders = <<>>
        /\ oms.total_orders = route_ret[1].orders_before
        /\ ~route_ret[1].raised

(***************************************************************************)
(* Properties of the exchange simulator                                    *)
(***************************************************************************)

RECURSIVE SumFillQty(_)
SumFillQty(fills) ==
    IF fills = <<>> THEN 0
    ELSE Head(fills).fill_qty + SumFillQty(Tail(fills))

\* C21: for an ACKED order whose type is not IOC, simulate_fills returns at
\* least one fill, the fill quantities sum to exactly order.quantity, and
\* the last returned fill (and only it) has is_final = true.
C21_Original ==
    (/\ "op" \in DOMAIN o_call
     /\ o_call.op = "submit_order"
     /\ o_call.status = "ACKED") =>
        /\ o_call.fills # <<>>
        /\ SumFillQty(o_call.fills) = oms.orders[o_call.order_id].quantity
        /\ \A i \in DOMAIN o_call.fills :
              o_call.fills[i].is_final <=> i = Len(o_call.fills)

(***************************************************************************)
(* Properties of the orchestrator lifecycle                                *)
(***************************************************************************)

\* the last call was a stop() and it has returned
StopReturned == life_call.op = "stop" /\ life_pc = "idle"

\* C22: after stop() returns no order is leaked: cancelling a loop while it
\* is suspended inside a gateway submit, or between slices of one signal,
\* never leaves an order stranded in PENDING, SENT or ACKED.
C22_Original ==
    StopReturned =>
        \A id \in DOMAIN oms.orders :
            oms.orders[id].status \notin {"PENDING", "SENT", "ACKED"}

\* the state a stop() leaves: both flags cleared and no task alive
Stopped(o) ==
    /\ ~o.running /\ ~o.feed_running
    /\ \A n \in DOMAIN o.task : o.task[n] # "alive"

\* the step is a call of start() / the beginning of a call of stop()
StartCalled == life_log' = Append(life_log, "start")
StopCalled == life_log' = Append(life_log, "stop")

\* C23: start() while already running is a no-op (no second feed task and
\* no second set of loop tasks is created), and stop() called right after
\* a stop(), or before any start(), returns without raising and leaves the
\* stopped state a single stop() leaves.
C23_LifecycleIdempotent ==
    [][/\ (StartCalled /\ orch.running) =>
              /\ orch' = orch /\ tasks' = tasks
              /\ ~life_call'.raised
       /\ (StopCalled /\ (life_log = <<>> \/ life_log[Len(life_log)] = "stop")) =>
              /\ life_pc' = "idle"
              /\ life_call' = [op |-> "stop", raised |-> FALSE]
              /\ Stopped(orch')
              /\ orch'.task = orch.task /\ orch'.created = orch.created
       /\ StopReturned => Stopped(orch) /\ ~life_call.raised
      ]_vars

\* start() twice and then stop() twice, all returned: one task of each
\* kind was ever created and none is alive
C23_Witness ==
    /\ life_log = <<"start", "start", "stop", "stop">>
    /\ StopReturned
    /\ \A n \in DOMAIN orch.created : orch.created[n] = 1
    /\ Stopped(orch)

(***************************************************************************)
(* Properties of the market-making quotes                                  *)
(***************************************************************************)

\* the last call of generate_quotes was made on a book with a mid above zero
QuotedOnValidMid ==
    /\ mm_ret # <<>>
    /\ MidPrice(mm_ret[1].book) # <<>>
    /\ MidPrice(mm_ret[1].book)[1].n > 0

\* C24: for a book with a valid mid above zero and any inventory,
\* generate_quotes returns exactly two signals, a BUY at the bid price and a
\* SELL at the ask price, and the ask is strictly above the bid; a rounded
\* ask that is equal to the bid or below it is widened to one tick above it.
C24_TwoSidedQuotes ==
    QuotedOnValidMid =>
        LET signals == mm_ret[1].signals
        IN  /\ Len(signals) = 2
            /\ signals[1].side = "BUY"
            /\ signals[1].signal_type = "market_make_bid"
            /\ signals[2].side = "SELL"
            /\ signals[2].signal_type = "market_make_ask"
            /\ signals[2].target_price > signals[1].target_price
            /\ (BestAsk(mm_ret[1].book) = BestBid(mm_ret[1].book)
                   => signals[2].target_price = signals[1].target_price + 1)

\* quotes for a locked book while the market maker holds inventory: both
\* prices round to the same tick and the ask is widened
C24_Witness ==
    /\ QuotedOnValidMid
    /\ Populated(mm_ret[1].book)
    /\ BestAsk(mm_ret[1].book) = BestBid(mm_ret[1].book)
    /\ mm_ret[1].net_position # 0
    /\ Len(mm_ret[1].signals) = 2
    /\ mm_ret[1].signals[2].target_price = mm_ret[1].signals[1].target_price + 1

\* the position is beyond 80% of max_position_shares
NearPositionLimit ==
    /\ QuotedOnValidMid
    /\ 10 * Abs(mm_ret[1].net_position) > 8 * MaxPositionShares

\* C28: beyond 80% of max_position_shares only the side that increases the
\* exposure is halved and the other side keeps the full quote_size_shares.
C28_Original ==
    NearPositionLimit =>
        LET signals == mm_ret[1].signals
            net == mm_ret[1].net_position
        IN  IF net > 0
            THEN /\ signals[1].target_qty = QuoteSizeShares \div 2
                 /\ signals[2].target_qty = QuoteSizeShares
            ELSE /\ signals[1].target_qty = QuoteSizeShares
                 /\ signals[2].target_qty = QuoteSizeShares \div 2

\* the quotes generate_quotes gives for the same book with no inventory
ZeroInventoryQuotes == GenerateQuotes("X", mm_ret[1].book, 0)

\* C29: with a long position bid and ask are no higher than the
\* zero-inventory quotes for the same book, with a short position no lower.
C29_Original ==
    QuotedOnValidMid =>
        LET signals == mm_ret[1].signals
            net == mm_ret[1].net_position
        IN  /\ net > 0 =>
                /\ signals[1].target_price <= ZeroInventoryQuotes[1].target_price
                /\ signals[2].target_price <= ZeroInventoryQuotes[2].target_price
            /\ net < 0 =>
                /\ signals[1].target_price >= ZeroInventoryQuotes[1].target_price
                /\ signals[2].target_price >= ZeroInventoryQuotes[2].target_price

(***************************************************************************)
(* Properties of the daily reset                                           *)
(***************************************************************************)

\* C25: reset_daily zeroes the check counters (checks_run, checks_passed,
\* checks_failed and the per-reason rejection counts) together with
\* daily_pnl, and clears the circuit-breaker latch.
C25_Original ==
    r_call.op = "reset_daily" =>
        /\ risk.daily_pnl = 0
        /\ ~risk.circuit_breaker_active
        /\ risk.checks_run = 0
        /\ risk.checks_passed = 0
        /\ risk.checks_failed = 0
        /\ \A reason \in DOMAIN risk.rejection_reasons :
               risk.rejection_reasons[reason] = 0

(***************************************************************************)
(* Properties of the status histogram under the orchestrator               *)
(***************************************************************************)

\* the orders of the OMS that are in status s
OrdersInStatus(s) == {id \in DOMAIN oms.orders : oms.orders[id].status = s}

StatusCounter(s) == DictGet(oms.orders_by_status, s, 0)

RECURSIVE SumStatusCounters(_)
SumStatusCounters(S) ==
    IF S = {} THEN 0
    ELSE LET s == CHOOSE x \in S : TRUE
         IN  StatusCounter(s) + SumStatusCounters(S \ {s})

\* C26: in every reachable state of the running orchestrator, for every
\* status s the counter orders_by_status[s] equals the number of orders in
\* status s, and the counters sum to total_orders.
C26_Original ==
    /\ \A s \in Statuses : StatusCounter(s) = Cardinality(OrdersInStatus(s))
    /\ SumStatusCounters(Statuses) = oms.total_orders

(***************************************************************************)
(* Properties of a fill that flips a position                              *)
(***************************************************************************)

\* the position of the last fill's symbol before that fill
BeforeLastFill ==
    LET n == Len(tracker_fills)
    IN  GetOrCreate(PositionAfter(SubSeq(tracker_fills, 1, n - 1)),
                    tracker_fills[n].symbol)

\* the last fill is larger than the opposite position it meets
LastFillFlips ==
    /\ tracker_fills # <<>>
    /\ LET fill == tracker_fills[Len(tracker_fills)]
       IN  \/ fill.side = "BUY" /\ BeforeLastFill.net_qty < 0
                /\ fill.fill_qty > -BeforeLastFill.net_qty
           \/ fill.side = "SELL" /\ BeforeLastFill.net_qty > 0
                /\ fill.fill_qty > BeforeLastFill.net_qty

\* C27: a BUY fill larger than the short position realizes
\* (avg_short_price - fill_price) * |old net_qty| on the closed part and
\* leaves avg_long_price equal to the fill price, the cost of the newly
\* opened long side; the mirror holds for a SELL that flips a long.
C27_Original ==
    LastFillFlips =>
        LET fill == tracker_fills[Len(tracker_fills)]
            before == BeforeLastFill
            after == positions[fill.symbol]
            price == RatInt(fill.fill_price)
        IN  IF fill.side = "BUY"
            THEN /\ after.realized_pnl =
                        RatAdd(before.realized_pnl,
                               RatTimes(RatSub(before.avg_short_price, price),
                                        -before.net_qty))
                 /\ after.avg_long_price = price
            ELSE /\ after.realized_pnl =
                        RatAdd(before.realized_pnl,
                               RatTimes(RatSub(price, before.avg_long_price),
                                        before.net_qty))
                 /\ after.avg_short_price = price

(***************************************************************************)
(* Properties of who writes the OMS and the position tracker               *)
(***************************************************************************)

\* a step that creates an order, changes an order's status or applies a fill
WritesOrders == oms' # oms \/ positions' # positions

\* C30: the OMS and the position tracker are mutated only by the pipeline
\* loop's signal execution; the market-making loop never creates orders,
\* changes an order's status or applies fills.
C30_Original ==
    [][WritesOrders => tasks'["market_making"] = tasks["market_making"]]_vars

(***************************************************************************)
(* Properties of the status history                                        *)
(***************************************************************************)

\* the order a task has handed to the gateway and is waiting on
AtGateway(t) == tasks[t].orders[tasks[t].idx]

\* C31: an order is in status SENT after it is handed to the gateway and
\* before it becomes ACKED, so that no order becomes ACKED without having
\* been SENT.
C31_Original ==
    \A t \in Tasks :
        tasks[t].pc = "submit" => oms.orders[AtGateway(t)].status = "SENT"

(***************************************************************************)
(* Properties of the order-book manager                                    *)
(***************************************************************************)

\* the event breaks a book invariant: a negative size or a negative price
ViolatesBookInvariant(event) ==
    \/ event.bid_size < 0 \/ event.ask_size < 0
    \/ event.bid_price < 0 \/ event.ask_price < 0

\* the step applies an event that breaks a book invariant
AppliesInvalidEvent ==
    /\ book_call'.op = "apply_event"
    /\ ViolatesBookInvariant(md_event'[1])

\* C32: a market-data event with a negative size or a negative price is
\* rejected silently: applying it leaves every replica of the book
\* unchanged and increments parse_errors.
C32_Original ==
    [][AppliesInvalidEvent =>
          /\ books' = books
          /\ parse_errors' = parse_errors + 1]_vars

\* no replica of any book holds a level whose total quantity is 0
NoZeroLevel ==
    \A symbol \in DOMAIN books : \A i \in DOMAIN books[symbol] :
        /\ \A price \in DOMAIN books[symbol][i].bid_levels :
               books[symbol][i].bid_levels[price].total_quantity # 0
        /\ \A price \in DOMAIN books[symbol][i].ask_levels :
               books[symbol][i].ask_levels[price].total_quantity # 0

\* what an update of (price, size) does to the levels of one side
LevelEffect(before, after, price, size) ==
    IF size = 0
    THEN /\ DOMAIN after = DOMAIN before \ {price}
         /\ \A p \in DOMAIN after : after[p] = before[p]
    ELSE /\ DOMAIN after = DOMAIN before \cup {price}
         /\ after[price].total_quantity = size
         /\ \A p \in DOMAIN before \ {price} : after[p] = before[p]

\* the sorted price list of a side lists exactly the prices of its levels
ListsLevels(prices, levels) ==
    /\ {prices[k] : k \in DOMAIN prices} = DOMAIN levels
    /\ \A k \in 1..(Len(prices) - 1) : prices[k] < prices[k + 1]

\* the step applies an event, and each side with a positive price takes it
\* as an L1 snapshot
AppliesAsSnapshot ==
    book_call'.op = "apply_event" =>
        LET event == md_event'[1]
        IN  \A i \in DOMAIN books[event.symbol] :
              LET before == books[event.symbol][i]
                  after == books'[event.symbol][i]
              IN  /\ event.bid_price > 0 =>
                        LevelEffect(before.bid_levels, after.bid_levels,
                                    event.bid_price, event.bid_size)
                  /\ event.ask_price > 0 =>
                        LevelEffect(before.ask_levels, after.ask_levels,
                                    event.ask_price, event.ask_size)
                  /\ ListsLevels(after.bid_prices, after.bid_levels)
                  /\ ListsLevels(after.ask_prices, after.ask_levels)

\* C33: after any sequence of L1 updates no price level with total
\* quantity 0 exists in the book: an update with size 0 on an existing level
\* removes it, an update with size 0 on a new price leaves the levels
\* unchanged, and an update with size > 0 on an existing level overwrites
\* its quantity.
C33_NoEmptyLevel == [][NoZeroLevel' /\ AppliesAsSnapshot]_vars

\* a size of 0 arrived for a bid price that had a level, after an update
\* that overwrote a level, and the level is gone
C33_Witness ==
    /\ book_call.op = "apply_event"
    /\ book_call.bid_known
    /\ md_event[1].bid_price > 0
    /\ md_event[1].bid_size = 0
    /\ md_event[1].bid_price \notin DOMAIN books["X"][1].bid_levels
    /\ book_call.ask_known
    /\ md_event[1].ask_size > 0
    /\ books["X"][1].ask_levels[md_event[1].ask_price].total_quantity
           = md_event[1].ask_size

\* all replicas of every symbol hold the same book
ReplicasIdentical ==
    \A symbol \in DOMAIN books : \A i, j \in DOMAIN books[symbol] :
        books[symbol][i] = books[symbol][j]

\* the step is a failover: the primary index advances modulo the number of
\* replicas and get_book returns a book with the same contents
FailoverAdvances ==
    book_call'.op = "failover" =>
        /\ primary'["X"] = (primary["X"] + 1) % Len(books["X"])
        /\ GetBook(books', primary', "X") = GetBook(books, primary, "X")

C35_Original ==
    \A i, j \in DOMAIN clock_log :
        i < j =>
            /\ clock_log[j].seq = clock_log[i].seq + (j - i)
            /\ clock_log[j].epoch_ns >= clock_log[i].epoch_ns

(***************************************************************************)
(* Properties of the positions under the two loops                         *)
(***************************************************************************)

\* C36: in every reachable state of the running orchestrator, with the
\* pipeline loop and the market-making loop interleaving at gateway awaits,
\* each symbol's |net_qty| in the position tracker never exceeds
\* position_limit_per_symbol.
C36_Original ==
    \A symbol \in DOMAIN positions :
        Abs(positions[symbol].net_qty) <= PositionLimitPerSymbol

(***************************************************************************)
(* Properties of the fate of an order                                      *)
(***************************************************************************)

\* order id exists and has reached a terminal status
Settled(id) ==
    id \in DOMAIN oms.orders /\ oms.orders[id].status \in TerminalStatuses

CheckRejects ==
    /\ risk'.checks_run = risk.checks_run + 1
    /\ ~r_ret'.approved

\* C38: a check_order call that returns REJECTED leaves the fat-finger
\* reference price of the order's symbol unchanged, whichever check caused
\* the rejection, including when the symbol had no reference price yet.
C38_Original ==
    [][CheckRejects => risk'.last_prices = risk.last_prices]_vars

(***************************************************************************)
(* Properties of the two position books                                    *)
(***************************************************************************)

\* C39: after any sequence of fills applied through the orchestrator's
\* execution path, the market maker's net_position for each symbol equals
\* the position tracker's net_qty for that symbol.
C39_PositionsAgree ==
    \A symbol \in Symbols :
        GetMMPosition(mm_positions, symbol).net_position
            = GetPositionQty(positions, symbol)

\* fills of both sides went through the path and left a short position in
\* both books
C39_Witness ==
    /\ \E i, j \in DOMAIN tracker_fills :
          tracker_fills[i].side = "BUY" /\ tracker_fills[j].side = "SELL"
    /\ "X" \in DOMAIN mm_positions
    /\ mm_positions["X"].net_position < 0
    /\ positions["X"].net_qty = mm_positions["X"].net_position

(***************************************************************************)
(* Properties of the queue counters                                        *)
(***************************************************************************)

\* C40: in every reachable state of a queue on which reset_stats has not
\* been called, enqueue_count = dequeue_count + overflow_count + depth.
C40_CountersBalance ==
    enqueue_count = dequeue_count + overflow_count + Len(buffer)

\* entries were published, some were overwritten, some were consumed and
\* some are still queued
C40_Witness ==
    /\ overflow_count > 0
    /\ dequeue_count > 0
    /\ Len(buffer) > 0
    /\ q_call.op = "publish"

====
